---- MODULE Spec2Model ----
(***************************************************************************)
(* Load Out List serial extraction (scripts/pdf-serial-reader).            *)
(*                                                                         *)
(* A Python str is a sequence of one-character strings; the character      *)
(* U+00C5 (A with ring) is written "Aring".  A pdfplumber cell is a str or *)
(* None.  Offsets of regular-expression matches are Python offsets         *)
(* (0-based, end exclusive).                                               *)
(***************************************************************************)
EXTENDS Integers, Sequences, FiniteSets, TLC

\* ------------------------------------------------------------------------
\* Characters and the str methods the scripts use
\* ------------------------------------------------------------------------

Digit == {"0", "1", "2", "3", "4", "5", "6", "7", "8", "9"}

Upper ==
    {"A", "B", "C", "D", "E", "F", "G", "H", "I", "J", "K", "L", "M",
     "N", "O", "P", "Q", "R", "S", "T", "U", "V", "W", "X", "Y", "Z", "Aring"}

Lower ==
    {"a", "b", "c", "d", "e", "f", "g", "h", "i", "j", "k", "l", "m",
     "n", "o", "p", "q", "r", "s", "t", "u", "v", "w", "x", "y", "z"}

Space == {" ", "\n", "\t"}

Punct == {"-", "_", "/", "#", ":", "."}

Word == Digit \cup Upper \cup Lower \cup {"_"}

Char == Word \cup Space \cup Punct

NonSpace == Char \ Space

NotNewline == Char \ {"\n"}

None == <<"None">>

\* str(cell or "")
StrOr(cell) == IF cell = None THEN <<>> ELSE cell

LowerChar(c) ==
    CASE c = "A" -> "a" [] c = "B" -> "b" [] c = "C" -> "c" [] c = "D" -> "d"
      [] c = "E" -> "e" [] c = "F" -> "f" [] c = "G" -> "g" [] c = "H" -> "h"
      [] c = "I" -> "i" [] c = "J" -> "j" [] c = "K" -> "k" [] c = "L" -> "l"
      [] c = "M" -> "m" [] c = "N" -> "n" [] c = "O" -> "o" [] c = "P" -> "p"
      [] c = "Q" -> "q" [] c = "R" -> "r" [] c = "S" -> "s" [] c = "T" -> "t"
      [] c = "U" -> "u" [] c = "V" -> "v" [] c = "W" -> "w" [] c = "X" -> "x"
      [] c = "Y" -> "y" [] c = "Z" -> "z" [] c = "Aring" -> "aring"
      [] OTHER -> c

\* str.lower()
StrLower(s) == [i \in 1..Len(s) |-> LowerChar(s[i])]

\* str.strip()
Strip(s) ==
    LET keep == {i \in 1..Len(s) : s[i] \notin Space}
    IN  IF keep = {} THEN <<>>
        ELSE LET lo == CHOOSE i \in keep : \A j \in keep : i <= j
                 hi == CHOOSE i \in keep : \A j \in keep : j <= i
             IN  SubSeq(s, lo, hi)

\* A substring test that always succeeds.
ContainsAnything(sub, s) == TRUE

\* sub in s
Contains(sub, s) ==
    \E i \in 0..(Len(s) - Len(sub)) : SubSeq(s, i + 1, i + Len(sub)) = sub

RECURSIVE SplitFrom(_, _, _)
SplitFrom(s, sep, from) ==
    LET hits == {i \in from..Len(s) : s[i] = sep}
    IN  IF hits = {} THEN <<SubSeq(s, from, Len(s))>>
        ELSE LET k == CHOOSE i \in hits : \A j \in hits : i <= j
             IN  <<SubSeq(s, from, k - 1)>> \o SplitFrom(s, sep, k + 1)

\* s.split("\n")
SplitLines(s) == SplitFrom(s, "\n", 1)

RECURSIVE Join(_, _)
\* sep.join(parts)
Join(sep, parts) ==
    IF Len(parts) = 0 THEN <<>>
    ELSE IF Len(parts) = 1 THEN parts[1]
    ELSE parts[1] \o sep \o Join(sep, Tail(parts))

\* seq[lo:hi] with Python offsets, clipped to the sequence
Slice(seq, lo, hi) ==
    LET h == IF hi > Len(seq) THEN Len(seq) ELSE hi
    IN  IF lo >= h THEN <<>> ELSE SubSeq(seq, lo + 1, h)

RECURSIVE Filter(_, _)
Filter(seq, keep) ==
    IF Len(seq) = 0 THEN <<>>
    ELSE (IF keep[1] THEN <<seq[1]>> ELSE <<>>)
            \o Filter(Tail(seq), Tail(keep))

StripEach(parts) == [i \in 1..Len(parts) |-> Strip(parts[i])]

KeepNonEmpty(st) == Filter(st, [i \in 1..Len(st) |-> st[i] # <<>>])

\* [x.strip() for x in cell.split("\n") if x.strip()]
StrippedNonEmptyLines(cell) == KeepNonEmpty(StripEach(SplitLines(cell)))

\* ------------------------------------------------------------------------
\* Regular expressions (Python re, backtracking, leftmost match, greedy and
\* lazy repetition).  A pattern is a sequence of nodes.
\* ------------------------------------------------------------------------

Inf == 0 - 1

ReSet(cs) == [t |-> "set", cs |-> cs]

ReLit(s) == <<[t |-> "lit", s |-> s]>>

ReRep(sub, min, max, greedy) ==
    [t |-> "rep", sub |-> sub, min |-> min, max |-> max, greedy |-> greedy]

ReAlt(a, b) == [t |-> "alt", a |-> a, b |-> b]

ReOpen(n) == [t |-> "open", n |-> n]

ReClose(n) == [t |-> "close", n |-> n]

ReWordBoundary == [t |-> "wb"]

ReEnd == [t |-> "end"]

ReLookahead(sub) == [t |-> "look", sub |-> sub]

ReNoMatch ==
    [ok |-> FALSE, start |-> 0, pos |-> 0,
     s1 |-> 0, e1 |-> 0, s2 |-> 0, e2 |-> 0]

ReStart(p) ==
    [ok |-> TRUE, start |-> p, pos |-> p,
     s1 |-> 0, e1 |-> 0, s2 |-> 0, e2 |-> 0]

ReLess(n) ==
    [n EXCEPT !.min = IF @ > 0 THEN @ - 1 ELSE 0,
              !.max = IF @ = Inf THEN Inf ELSE @ - 1]

IsWordAt(s, p) == p >= 1 /\ p <= Len(s) /\ s[p] \in Word

SetMin(S) == CHOOSE x \in S : \A y \in S : x <= y

SetMax(S) == CHOOSE x \in S : \A y \in S : y <= x

\* How many characters of s from offset p on are in cs, at most max.
RunLength(s, p, cs, max) ==
    LET stop == {i \in (p + 1)..Len(s) : s[i] \notin cs}
        run  == IF stop = {} THEN Len(s) - p ELSE SetMin(stop) - p - 1
    IN  IF max # Inf /\ run > max THEN max ELSE run

IsSetRep(n) == Len(n.sub) = 1 /\ n.sub[1].t = "set"

RECURSIVE ReRun(_, _, _)
\* The match of the node sequence at st.pos that a backtracking matcher
\* finds first, or ReNoMatch.
ReRun(nodes, s, st) ==
    IF Len(nodes) = 0 THEN st
    ELSE
      LET n    == Head(nodes)
          rest == Tail(nodes)
      IN  CASE n.t = "set" ->
                 IF st.pos < Len(s) /\ s[st.pos + 1] \in n.cs
                 THEN ReRun(rest, s, [st EXCEPT !.pos = @ + 1])
                 ELSE ReNoMatch
            [] n.t = "lit" ->
                 IF Slice(s, st.pos, st.pos + Len(n.s)) = n.s
                 THEN ReRun(rest, s, [st EXCEPT !.pos = @ + Len(n.s)])
                 ELSE ReNoMatch
            [] n.t = "rep" /\ IsSetRep(n) ->
                 \* a repeated character class: the longest (greedy) or
                 \* shortest (lazy) count after which the rest matches
                 LET run  == RunLength(s, st.pos, n.sub[1].cs, n.max)
                     good == {k \in n.min..run :
                                ReRun(rest, s, [st EXCEPT !.pos = @ + k]).ok}
                 IN  IF good = {} THEN ReNoMatch
                     ELSE ReRun(rest, s,
                            [st EXCEPT !.pos = @ + (IF n.greedy
                                                    THEN SetMax(good)
                                                    ELSE SetMin(good))])
            [] n.t = "rep" /\ ~IsSetRep(n) ->
                 IF n.min > 0
                 THEN ReRun(n.sub \o <<ReLess(n)>> \o rest, s, st)
                 ELSE IF n.max = 0 THEN ReRun(rest, s, st)
                 ELSE LET more == ReRun(n.sub \o <<ReLess(n)>> \o rest, s, st)
                          skip == ReRun(rest, s, st)
                      IN  IF n.greedy
                          THEN (IF more.ok THEN more ELSE skip)
                          ELSE (IF skip.ok THEN skip ELSE more)
            [] n.t = "alt" ->
                 LET a == ReRun(n.a \o rest, s, st)
                 IN  IF a.ok THEN a ELSE ReRun(n.b \o rest, s, st)
            [] n.t = "open" ->
                 ReRun(rest, s, IF n.n = 1 THEN [st EXCEPT !.s1 = st.pos]
                                ELSE [st EXCEPT !.s2 = st.pos])
            [] n.t = "close" ->
                 ReRun(rest, s, IF n.n = 1 THEN [st EXCEPT !.e1 = st.pos]
                                ELSE [st EXCEPT !.e2 = st.pos])
            [] n.t = "wb" ->
                 IF IsWordAt(s, st.pos) # IsWordAt(s, st.pos + 1)
                 THEN ReRun(rest, s, st)
                 ELSE ReNoMatch
            [] n.t = "end" ->
                 IF st.pos = Len(s) \/ (st.pos = Len(s) - 1 /\ s[Len(s)] = "\n")
                 THEN ReRun(rest, s, st)
                 ELSE ReNoMatch
            [] n.t = "look" ->
                 IF ReRun(n.sub, s, st).ok THEN ReRun(rest, s, st)
                 ELSE ReNoMatch

\* re.match(pattern, s)
ReMatch(nodes, s) == ReRun(nodes, s, ReStart(0))

FirstStart(nodes, s, starts) ==
    IF starts = {} THEN ReNoMatch
    ELSE ReRun(nodes, s, ReStart(SetMin(starts)))

\* The leftmost match starting at offset p or later.
ReSearchFrom(nodes, s, p) ==
    FirstStart(nodes, s, {q \in p..Len(s) : ReRun(nodes, s, ReStart(q)).ok})

\* re.search(pattern, s)
ReSearch(nodes, s) == ReSearchFrom(nodes, s, 0)

\* m.group(), m.group(1), m.group(2)
Group0(s, m) == Slice(s, m.start, m.pos)

Group1(s, m) == Slice(s, m.s1, m.e1)

Group2(s, m) == Slice(s, m.s2, m.e2)

RECURSIVE ReSubFrom(_, _, _, _)

ReSubAt(nodes, repl, s, p, m) ==
    IF ~m.ok THEN Slice(s, p, Len(s))
    ELSE Slice(s, p, m.start) \o repl \o ReSubFrom(nodes, repl, s, m.pos)

ReSubFrom(nodes, repl, s, p) ==
    IF p > Len(s) THEN <<>>
    ELSE ReSubAt(nodes, repl, s, p, ReSearchFrom(nodes, s, p))

\* re.sub(pattern, repl, s), for patterns that match no empty string
ReSub(nodes, repl, s) == ReSubFrom(nodes, repl, s, 0)

\* ------------------------------------------------------------------------
\* extract_loadout_serials_from_table (extract_serials.py 107-199)
\* ------------------------------------------------------------------------

S_Serial == <<"S", "e", "r", "i", "a", "l">>

S_Trace == <<"T", "r", "a", "c", "e">>

S_Material == <<"M", "a", "t", "e", "r", "i", "a", "l">>

S_Description == <<"D", "e", "s", "c", "r", "i", "p", "t", "i", "o", "n">>

S_Qty == <<"Q", "t", "y">>

S_none == <<"n", "o", "n", "e">>

S_na == <<"n", "/", "a">>

\* A column index is the 1-based position in the header row; 0 stands for
\* Python's None (no such column).
NoCol == 0

\* header_text = " ".join(str(cell or "") for cell in header_row)
HeaderText(header_row) ==
    Join(<<" ">>, [i \in 1..Len(header_row) |-> StrOr(header_row[i])])

\* if "Serial" not in header_text and "Trace" not in header_text: continue
IsLoadOutHeader(header_row) ==
    Contains(S_Serial, HeaderText(header_row))
        \/ Contains(S_Trace, HeaderText(header_row))

\* The chain of lines 137-144 with "Trace" left out of its first test.
RoleWithoutTrace(cell_text) ==
    IF Contains(S_Serial, cell_text) THEN "serial"
    ELSE IF Contains(S_Material, cell_text) THEN "material"
    ELSE IF Contains(S_Description, cell_text) THEN "desc"
    ELSE IF Contains(S_Qty, cell_text) THEN "qty"
    ELSE "other"

\* The chain of lines 137-144 with the test for "Material" first.
RoleMaterialFirst(cell_text) ==
    IF Contains(S_Material, cell_text) THEN "material"
    ELSE IF Contains(S_Serial, cell_text) \/ Contains(S_Trace, cell_text)
    THEN "serial"
    ELSE IF Contains(S_Description, cell_text) THEN "desc"
    ELSE IF Contains(S_Qty, cell_text) THEN "qty"
    ELSE "other"

HeaderRoleOf(cell_text) ==
    IF Contains(S_Serial, cell_text) \/ Contains(S_Trace, cell_text)
    THEN "serial"
    ELSE IF Contains(S_Material, cell_text) THEN "material"
    ELSE IF Contains(S_Description, cell_text) THEN "desc"
    ELSE IF Contains(S_Qty, cell_text) THEN "qty"
    ELSE "other"

\* The if/elif chain that classifies one header cell.
HeaderRole(cell) == HeaderRoleOf(Strip(StrOr(cell)))

\* The loop assigns on every matching cell, so the last one stays.
ColOf(header_row, role) ==
    LET hits == {i \in 1..Len(header_row) : HeaderRole(header_row[i]) = role}
    IN  IF hits = {} THEN NoCol
        ELSE CHOOSE i \in hits : \A j \in hits : j <= i

FindColumns(header_row) ==
    [serial_col   |-> ColOf(header_row, "serial"),
     material_col |-> ColOf(header_row, "material"),
     desc_col     |-> ColOf(header_row, "desc"),
     qty_col      |-> ColOf(header_row, "qty")]

\* if not row or all(cell is None or str(cell).strip() == "" for cell in row)
IsBlankRow(row) ==
    Len(row) = 0
        \/ \A i \in 1..Len(row) : row[i] = None \/ Strip(row[i]) = <<>>

\* row[col] raises IndexError when the row has no such cell.
RowRaises(row, cols) ==
    \/ cols.serial_col > Len(row)
    \/ cols.material_col > Len(row)
    \/ cols.desc_col > Len(row)
    \/ cols.qty_col > Len(row)

\* str(row[col] or "").strip() if col is not None else ""
CellText(row, col) == IF col = NoCol THEN <<>> ELSE Strip(StrOr(row[col]))

\* The skip of line 180 without .lower().
SkipExactCase(serial) == serial = <<>> \/ serial \in {S_none, <<>>, S_na}

\* The skip of line 180 with `if not serial` alone.
SkipEmptyOnly(serial) == serial = <<>>

\* if not serial or serial.lower() in ("none", "", "n/a"): continue
SkipSerial(serial) ==
    serial = <<>> \/ StrLower(serial) \in {S_none, <<>>, S_na}

\* The pairing of lines 185-193 with the last value repeated.
LastCarries(xs, i) ==
    IF i <= Len(xs) THEN xs[i] ELSE IF Len(xs) > 0 THEN xs[Len(xs)] ELSE <<>>

\* xs[i] if i < len(xs) else (xs[0] if xs else ""), i counted from 1
PairedValue(xs, i) ==
    IF i <= Len(xs) THEN xs[i] ELSE IF Len(xs) > 0 THEN xs[1] ELSE <<>>

\* The items of lines 179-197 with the quantity cell split per line and
\* paired like the materials.
PairItemsSplitQty(serials, materials, descriptions, qty_cell) ==
    Filter([i \in 1..Len(serials) |->
               [material_num |-> PairedValue(materials, i),
                description  |-> PairedValue(descriptions, i),
                serial       |-> serials[i],
                qty          |-> PairedValue(StrippedNonEmptyLines(qty_cell),
                                             i)]],
           [i \in 1..Len(serials) |-> ~SkipSerial(serials[i])])

\* The items appended for the stacked values of one data row (179-197).
PairItems(serials, materials, descriptions, qty_cell) ==
    Filter([i \in 1..Len(serials) |->
               [material_num |-> PairedValue(materials, i),
                description  |-> PairedValue(descriptions, i),
                serial       |-> serials[i],
                qty          |-> qty_cell]],
           [i \in 1..Len(serials) |-> ~SkipSerial(serials[i])])

\* The items one data row appends to results (156-197).
RowItems(row, cols) ==
    PairItems(StrippedNonEmptyLines(CellText(row, cols.serial_col)),
              StrippedNonEmptyLines(CellText(row, cols.material_col)),
              StrippedNonEmptyLines(CellText(row, cols.desc_col)),
              CellText(row, cols.qty_col))

\* A call either returns or raises; results is the list built up to then.
Returned(results) == [raised |-> FALSE, results |-> results]

Raised(results) == [raised |-> TRUE, results |-> results]

RECURSIVE RowsRun(_, _, _)
\* for row in table[1:]
RowsRun(rows, cols, results) ==
    IF Len(rows) = 0 THEN Returned(results)
    ELSE IF IsBlankRow(Head(rows)) THEN RowsRun(Tail(rows), cols, results)
    ELSE IF RowRaises(Head(rows), cols) THEN Raised(results)
    ELSE RowsRun(Tail(rows), cols, results \o RowItems(Head(rows), cols))

\* if not table or len(table) < 2: continue; header checks; serial_col None
SkipTable(table) ==
    \/ Len(table) < 2
    \/ ~IsLoadOutHeader(table[1])
    \/ FindColumns(table[1]).serial_col = NoCol

RECURSIVE TablesRun(_, _)
\* The step to the next table with the results of this table appended to
\* those it was given, which they already hold.
TableStepAppends(tables, results, r) ==
    IF r.raised THEN r ELSE TablesRun(Tail(tables), results \o r.results)

\* After the row loop of one table: an exception leaves the function.
TableStep(tables, results, r) ==
    IF r.raised THEN r ELSE TablesRun(Tail(tables), r.results)

\* for table in tables
TablesRun(tables, results) ==
    IF Len(tables) = 0 THEN Returned(results)
    ELSE IF SkipTable(Head(tables)) THEN TablesRun(Tail(tables), results)
    ELSE TableStep(tables, results,
                   RowsRun(Tail(Head(tables)), FindColumns(Head(tables)[1]),
                           results))

extract_loadout_serials_from_table(tables) == TablesRun(tables, <<>>)

\* ------------------------------------------------------------------------
\* extract_loadout_serials_from_text (extract_serials.py 202-263)
\* ------------------------------------------------------------------------

S_LoadOutList ==
    <<"L", "O", "A", "D", " ", "O", "U", "T", " ", "L", "I", "S", "T">>

S_LoadOutVerif ==
    <<"L", "o", "a", "d", " ", "O", "u", "t", " ", "V", "e", "r", "i", "f">>

S_MaterialHash == <<"M", "a", "t", "e", "r", "i", "a", "l", " ", "#">>

S_OWS == <<"O", "W", "S", "-">>

AsciiUpper == Upper \ {"Aring"}

\* r"LOAD OUT LIST\s*\n(.+?)(?:Load Out Verif|$)" with re.DOTALL
LoadoutRe ==
    ReLit(S_LoadOutList)
        \o <<ReRep(<<ReSet(Space)>>, 0, Inf, TRUE), ReSet({"\n"}), ReOpen(1),
             ReRep(<<ReSet(Char)>>, 1, Inf, FALSE), ReClose(1),
             ReAlt(ReLit(S_LoadOutVerif), <<ReEnd>>)>>

\* r"(OWS-[\w\-]+|\b\d{8}\b)"
SerialRe ==
    <<ReOpen(1),
      ReAlt(ReLit(S_OWS) \o <<ReRep(<<ReSet(Word \cup {"-"})>>, 1, Inf, TRUE)>>,
            <<ReWordBoundary, ReRep(<<ReSet(Digit)>>, 8, 8, TRUE),
              ReWordBoundary>>),
      ReClose(1)>>

\* r"^(\d{9}|\d{6,}|[A-Z]{2,5})\s+(.+)"
MaterialRe ==
    <<ReOpen(1),
      ReAlt(<<ReRep(<<ReSet(Digit)>>, 9, 9, TRUE)>>,
            <<ReAlt(<<ReRep(<<ReSet(Digit)>>, 6, Inf, TRUE)>>,
                    <<ReRep(<<ReSet(AsciiUpper)>>, 2, 5, TRUE)>>)>>),
      ReClose(1),
      ReRep(<<ReSet(Space)>>, 1, Inf, TRUE),
      ReOpen(2), ReRep(<<ReSet(NotNewline)>>, 1, Inf, TRUE), ReClose(2)>>

\* r"^(\d+)"
QtyRe == <<ReOpen(1), ReRep(<<ReSet(Digit)>>, 1, Inf, TRUE), ReClose(1)>>

\* The test of line 227 without "Description".
SkipMaterialOnly(line) == line = <<>> \/ Contains(S_MaterialHash, line)

\* if not line or "Material #" in line or "Description" in line: continue
SkipLine(line) ==
    line = <<>> \/ Contains(S_MaterialHash, line)
        \/ Contains(S_Description, line)

\* Lines 240-252 without the split of line 243: no material number, the
\* text before the serial as the description.
ItemUnsplit(serial, before_serial, mat_match, after_serial, qty_match) ==
    [material_num |-> <<>>,
     description  |-> before_serial,
     serial       |-> serial,
     qty          |-> IF qty_match.ok THEN Group1(after_serial, qty_match)
                      ELSE <<>>]

\* Lines 243-246 and 249-252, for the two matches.
ItemWith(serial, before_serial, mat_match, after_serial, qty_match) ==
    [material_num |-> IF mat_match.ok THEN Group1(before_serial, mat_match)
                      ELSE <<>>,
     description  |-> IF mat_match.ok
                      THEN Strip(Group2(before_serial, mat_match))
                      ELSE before_serial,
     serial       |-> serial,
     qty          |-> IF qty_match.ok THEN Group1(after_serial, qty_match)
                      ELSE <<>>]

\* Lines 243 and 249 with the quantity searched anywhere after the serial.
ItemQtySearched(serial, before_serial, after_serial) ==
    ItemWith(serial, before_serial, ReMatch(MaterialRe, before_serial),
             after_serial, ReSearch(QtyRe, after_serial))

\* Lines 243 and 249.
ItemOf(serial, before_serial, after_serial) ==
    ItemWith(serial, before_serial, ReMatch(MaterialRe, before_serial),
             after_serial, ReMatch(QtyRe, after_serial))

\* Lines 234-261, for a stripped line and its serial match.
MatchedItem(line, serial_match) ==
    ItemOf(Group1(line, serial_match),
           Strip(Slice(line, 0, serial_match.start)),
           Strip(Slice(line, serial_match.pos, Len(line))))

\* The item one section line appends, for a stripped line with a serial.
LineItem(line) == MatchedItem(line, ReSearch(SerialRe, line))

\* Lines 227-232 without the skip of line 227.
YieldsWithoutSkip(line) == ReSearch(SerialRe, line).ok

\* Lines 227-232: the line yields an item.
YieldsItem(line) == ~SkipLine(line) /\ ReSearch(SerialRe, line).ok

StrippedItems(st) ==
    Filter([i \in 1..Len(st) |-> LineItem(st[i])],
           [i \in 1..Len(st) |-> YieldsItem(st[i])])

\* for line in section.split("\n")
SectionItems(section) == StrippedItems(StripEach(SplitLines(section)))

\* Lines 217-220.
MatchedSection(page_text, loadout_match) ==
    IF ~loadout_match.ok THEN <<>>
    ELSE SectionItems(Group1(page_text, loadout_match))

extract_loadout_serials_from_text(page_text) ==
    MatchedSection(page_text, ReSearch(LoadoutRe, page_text))

\* ------------------------------------------------------------------------
\* extract_general_info (extract_serials.py 21-104)
\* ------------------------------------------------------------------------

S_SalesOrder ==
    <<"S", "a", "l", "e", "s", " ", "O", "r", "d", "e", "r", "/", "P", "l",
      "a", "n", "n", "i", "n", "g", " ", "O", "r", "d", "e", "r", " ", "N",
      "u", "m", "b", "e", "r">>

S_Shipping == <<"S", "h", "i", "p", "p", "i", "n", "g">>

S_LoadOutDate ==
    <<"L", "o", "a", "d", " ", "O", "u", "t", " ", "D", "a", "t", "e">>

S_ENERGI == <<"E", "N", "E", "R", "G", "I">>

S_ASA == <<"A", "S", "A">>

S_EBUS == <<"E", "B", "U", "S">>

S_EESSA == <<"E", "E", "S", "S", "A">>

S_ENERGI_ == <<"E", "N", "E", "R", "G", "I", " ">>

WordHyphen == Word \cup {"-"}

WordSpaceHyphen == Word \cup Space \cup {"-"}

\* r"V[AringA]R\s*ENERGI", the prefix the two customer patterns share
VarEnergi ==
    ReLit(<<"V">>) \o <<ReSet({"Aring", "A"})>> \o ReLit(<<"R">>)
        \o <<ReRep(<<ReSet(Space)>>, 0, Inf, TRUE)>> \o ReLit(S_ENERGI)

\* r"(V[AringA]R\s*ENERGI[\w\s\-]*?)\s{2,}(\S+)"
CustomerRe ==
    <<ReOpen(1)>> \o VarEnergi
        \o <<ReRep(<<ReSet(WordSpaceHyphen)>>, 0, Inf, FALSE), ReClose(1),
             ReRep(<<ReSet(Space)>>, 2, Inf, TRUE),
             ReOpen(2), ReRep(<<ReSet(NonSpace)>>, 1, Inf, TRUE), ReClose(2)>>

\* r"(EESSA[\w_\-]+\s*[\w_\-\s]*\d+[\w\-\s]*H?)"
WellRe ==
    <<ReOpen(1)>> \o ReLit(S_EESSA)
        \o <<ReRep(<<ReSet(WordHyphen)>>, 1, Inf, TRUE),
             ReRep(<<ReSet(Space)>>, 0, Inf, TRUE),
             ReRep(<<ReSet(WordSpaceHyphen)>>, 0, Inf, TRUE),
             ReRep(<<ReSet(Digit)>>, 1, Inf, TRUE),
             ReRep(<<ReSet(WordSpaceHyphen)>>, 0, Inf, TRUE),
             ReRep(<<ReSet({"H"})>>, 0, 1, TRUE), ReClose(1)>>

\* r"\d{1,2}\s+\w+\s+\d{4}"
DateRe ==
    <<ReRep(<<ReSet(Digit)>>, 1, 2, TRUE),
      ReRep(<<ReSet(Space)>>, 1, Inf, TRUE),
      ReRep(<<ReSet(Word)>>, 1, Inf, TRUE),
      ReRep(<<ReSet(Space)>>, 1, Inf, TRUE),
      ReRep(<<ReSet(Digit)>>, 4, 4, TRUE)>>

\* r"(V[AringA]R\s*ENERGI[\w\s\-]*?(?:EBUS|ASA\S*))"
CustomerRawRe ==
    <<ReOpen(1)>> \o VarEnergi
        \o <<ReRep(<<ReSet(WordSpaceHyphen)>>, 0, Inf, FALSE),
             ReAlt(ReLit(S_EBUS),
                   ReLit(S_ASA) \o <<ReRep(<<ReSet(NonSpace)>>, 0, Inf, TRUE)>>),
             ReClose(1)>>

\* r"ENERGI(?=ASA)"
EnergiAsaRe == ReLit(S_ENERGI) \o <<ReLookahead(ReLit(S_ASA))>>

\* r"(EESSA[\w_\-]+\s*[\w_\-]*\s*\d+[\w\-\s]*H?)"
WellRawRe ==
    <<ReOpen(1)>> \o ReLit(S_EESSA)
        \o <<ReRep(<<ReSet(WordHyphen)>>, 1, Inf, TRUE),
             ReRep(<<ReSet(Space)>>, 0, Inf, TRUE),
             ReRep(<<ReSet(WordHyphen)>>, 0, Inf, TRUE),
             ReRep(<<ReSet(Space)>>, 0, Inf, TRUE),
             ReRep(<<ReSet(Digit)>>, 1, Inf, TRUE),
             ReRep(<<ReSet(WordSpaceHyphen)>>, 0, Inf, TRUE),
             ReRep(<<ReSet({"H"})>>, 0, 1, TRUE), ReClose(1)>>

\* r"([\w_\-]+(?:\s+[\d_\-]+[\w\-]*)*(?:\s+H)?)"
WellCleanRe ==
    <<ReOpen(1), ReRep(<<ReSet(WordHyphen)>>, 1, Inf, TRUE),
      ReRep(<<ReRep(<<ReSet(Space)>>, 1, Inf, TRUE),
              ReRep(<<ReSet(Digit \cup {"_", "-"})>>, 1, Inf, TRUE),
              ReRep(<<ReSet(WordHyphen)>>, 0, Inf, TRUE)>>, 0, Inf, TRUE),
      ReRep(<<ReRep(<<ReSet(Space)>>, 1, Inf, TRUE)>> \o ReLit(<<"H">>),
            0, 1, TRUE),
      ReClose(1)>>

\* r"\s+"
SpacesRe == <<ReRep(<<ReSet(Space)>>, 1, Inf, TRUE)>>

\* re.sub(r"\s+", " ", x).strip()
NormalizeSpaces(x) == Strip(ReSub(SpacesRe, <<" ">>, x))

\* page.extract_text(...) or ""
TextOr(text) == IF text = None THEN <<>> ELSE text

EmptyInfo == [customer |-> <<>>, well_name |-> <<>>, load_out_date |-> <<>>]

FirstOf(st, cand) == IF cand = {} THEN <<>> ELSE st[SetMin(cand)]

FirstCandidate(st) ==
    FirstOf(st, {k \in 1..Len(st) :
                    st[k] # <<>> /\ ~Contains(S_Shipping, st[k])})

\* The first line of lines[i + 1 : i + 3] that is neither empty nor a
\* "Shipping" line, stripped; the loop leaves on it whether or not the
\* customer pattern matches (the break of line 59).  <<>> when there is none.
HeaderCandidate(lines, i) == FirstCandidate(StripEach(Slice(lines, i, i + 2)))

\* Lines 56-58.
SetWellName(info, remainder, well_match) ==
    IF well_match.ok
    THEN [info EXCEPT !.well_name = Strip(Group1(remainder, well_match))]
    ELSE info

\* Lines 53-58.
SearchWell(info, remainder) ==
    SetWellName(info, remainder, ReSearch(WellRe, remainder))

\* Lines 50-58.
SetCustomer(info, next_stripped, cust_match) ==
    IF ~cust_match.ok THEN info
    ELSE SearchWell(
           [info EXCEPT !.customer =
                NormalizeSpaces(Group1(next_stripped, cust_match))],
           Strip(Slice(next_stripped, cust_match.e1, Len(next_stripped))))

\* Lines 44-59, for the candidate line.
SearchCustomer(info, next_stripped) ==
    IF next_stripped = <<>> THEN info
    ELSE SetCustomer(info, next_stripped, ReSearch(CustomerRe, next_stripped))

\* info after the body of `if "Sales Order/Planning Order Number" in stripped`
AfterSalesOrder(lines, i, info) ==
    SearchCustomer(info, HeaderCandidate(lines, i))

DateOf(next_line) == Group0(next_line, ReSearch(DateRe, next_line))

SetDate(info, nxt, hits) ==
    IF hits = {} THEN info
    ELSE [info EXCEPT !.load_out_date = DateOf(nxt[SetMin(hits)])]

DateLines(nxt) == {k \in 1..Len(nxt) : ReSearch(DateRe, nxt[k]).ok}

FirstDate(info, nxt) == SetDate(info, nxt, DateLines(nxt))

\* info after the body of `if "Load Out Date" in stripped`
AfterLoadOutDate(lines, i, info) == FirstDate(info, Slice(lines, i, i + 2))

\* Lines 39-59 for one line.
SalesOrderStep(lines, i, info, stripped) ==
    IF Contains(S_SalesOrder, stripped)
    THEN AfterSalesOrder(lines, i, info) ELSE info

\* Lines 61-67 for one line.
LoadOutDateStep(lines, i, info, stripped) ==
    IF Contains(S_LoadOutDate, stripped)
    THEN AfterLoadOutDate(lines, i, info) ELSE info

\* One turn of the loop of line 33, for the stripped line.
LineStep(lines, i, info, stripped) ==
    LoadOutDateStep(lines, i, SalesOrderStep(lines, i, info, stripped),
                    stripped)

RECURSIVE LayoutPass(_, _, _)
\* for i, line in enumerate(lines), i counted from 1
LayoutPass(lines, i, info) ==
    IF i > Len(lines) THEN info
    ELSE LayoutPass(lines, i + 1, LineStep(lines, i, info, Strip(lines[i])))

\* if "ENERGI" in line and ("ASA" in line or "EBUS" in line), and the
\* looser pattern matches
IsRawCustomerLine(line) ==
    /\ Contains(S_ENERGI, line)
    /\ (Contains(S_ASA, line) \/ Contains(S_EBUS, line))
    /\ ReSearch(CustomerRawRe, line).ok

RawCustomerOf(line) ==
    NormalizeSpaces(Group1(line, ReSearch(CustomerRawRe, line)))

FirstRawCustomer(lines, hits) ==
    IF hits = {} THEN <<>> ELSE RawCustomerOf(lines[SetMin(hits)])

\* The fallback of lines 70-77 taking the first raw line as it is.
FirstRawLine(lines) == NormalizeSpaces(lines[1])

RawCustomerIn(lines) ==
    FirstRawCustomer(lines,
                     {k \in 1..Len(lines) : IsRawCustomerLine(lines[k])})

\* Fallback for customer from raw text
RawCustomer(raw) == RawCustomerIn(SplitLines(raw))

RawWellOf(line) == Strip(Group1(line, ReSearch(WellRawRe, line)))

FirstRawWell(lines, hits) ==
    IF hits = {} THEN <<>> ELSE RawWellOf(lines[SetMin(hits)])

RawWellIn(lines) ==
    FirstRawWell(lines,
                 {k \in 1..Len(lines) : ReSearch(WellRawRe, lines[k]).ok})

\* Fallback for well name from raw text
RawWellName(raw) == RawWellIn(SplitLines(raw))

Cleaned(well_name, cleaned) ==
    IF cleaned.ok THEN Strip(Group1(well_name, cleaned)) ELSE well_name

\* Clean well name: remove coordinator name if appended
CleanWellName(well_name) ==
    IF well_name = <<>> THEN well_name
    ELSE Cleaned(well_name, ReMatch(WellCleanRe, well_name))

\* Normalize customer: "ENERGIASA" -> "ENERGI ASA"
NormalizeCustomer(customer) ==
    IF customer = <<>> THEN customer
    ELSE ReSub(EnergiAsaRe, S_ENERGI_, customer)

\* Lines 69-104, for the info the layout pass leaves.
\* Lines 69-92 with the raw text asked first for both fields.
RawFirst(laid, raw) ==
    [customer      |-> NormalizeCustomer(
                         IF RawCustomer(raw) # <<>> THEN RawCustomer(raw)
                         ELSE laid.customer),
     well_name     |-> CleanWellName(
                         IF RawWellName(raw) # <<>> THEN RawWellName(raw)
                         ELSE laid.well_name),
     load_out_date |-> laid.load_out_date]

WithFallbacks(laid, raw) ==
    [customer      |-> NormalizeCustomer(
                         IF laid.customer = <<>> THEN RawCustomer(raw)
                         ELSE laid.customer),
     well_name     |-> CleanWellName(
                         IF laid.well_name = <<>> THEN RawWellName(raw)
                         ELSE laid.well_name),
     load_out_date |-> laid.load_out_date]

extract_general_info(layout_text, raw_text) ==
    WithFallbacks(LayoutPass(SplitLines(TextOr(layout_text)), 1, EmptyInfo),
                  TextOr(raw_text))

\* ------------------------------------------------------------------------
\* process_pdf (extract_serials.py 266-314) and main (372-421)
\* ------------------------------------------------------------------------

VARIABLES
    pc,               \* where the run is: start, loop, open, info, table,
                      \* text, stamp, except
    runs,             \* runs of the script still to come
    dir,              \* the paths in --dir
    disk,             \* for each path, the documents its bytes may hold
    pdf_files,        \* main: the sorted paths not yet processed
    all_records,      \* main: the accumulating output list
    pdf_path,         \* process_pdf: its argument
    page,             \* process_pdf: page1 of the open document
    page_text,        \* process_pdf: page1.extract_text() or ""
    info,             \* process_pdf: the metadata
    loadout_serials,  \* process_pdf: the items chosen for the document
    records,          \* process_pdf: its local all_records
    now,              \* the clock datetime.now() reads, in seconds
    info_called,      \* whether extract_general_info ran for this document
    table_out,        \* what the table extractor did for this document
    text_out,         \* what the text extractor did for this document
    rets,             \* this run: what process_pdf returned, per document
    output,           \* per finished run, the record list handed to save_*
                      \* or to upload_to_sheet
    append,           \* the append argument of the last save or upload
    csv,              \* the rows of the file at --output
    mailbox,          \* gmail_poll: the messages of the account
    unread,           \* gmail_poll: the messages that carry UNREAD
    messages,         \* gmail_poll main: the messages not yet processed
    sheet             \* the rows of the sheet "Out"

vars ==
    <<pc, runs, dir, disk, pdf_files, all_records, pdf_path, page, page_text,
      info, loadout_serials, records, now, info_called, table_out, text_out,
      rets, output, append, csv, mailbox, unread, messages, sheet>>

MaxClock == 1

MaxRuns == 2

MaxFiles == 2

S_pdf == <<".", "p", "d", "f">>

S_PDF == <<".", "P", "D", "F">>

\* The characters of the paths, in code point order.
CodeOrder ==
    <<".", "/", "0", "1", "2", "A", "B", "C", "D", "F", "P", "_",
      "a", "b", "c", "d", "f", "p">>

Code(c) == CHOOSE i \in 1..Len(CodeOrder) : CodeOrder[i] = c

\* a < b for Python str
StrLess(a, b) ==
    \E k \in 0..Len(a) :
        /\ k <= Len(b)
        /\ SubSeq(a, 1, k) = SubSeq(b, 1, k)
        /\ IF k = Len(a) THEN k < Len(b)
           ELSE k < Len(b) /\ Code(a[k + 1]) < Code(b[k + 1])

RECURSIVE Sorted(_)
\* sorted(S) for a set of str
Sorted(S) ==
    IF S = {} THEN <<>>
    ELSE LET m == CHOOSE x \in S : \A y \in S \ {x} : StrLess(x, y)
         IN  <<m>> \o Sorted(S \ {m})

EndsWith(s, suffix) ==
    Len(s) >= Len(suffix)
        /\ SubSeq(s, Len(s) - Len(suffix) + 1, Len(s)) = suffix

\* glob("*.PDF") + glob("*.pdf"), duplicates removed by set()
Glob(paths) == {p \in paths : EndsWith(p, S_PDF) \/ EndsWith(p, S_pdf)}

\* os.path.basename(pdf_path)
Basename(path) ==
    LET seps == {i \in 1..Len(path) : path[i] = "/"}
    IN  IF seps = {} THEN path ELSE SubSeq(path, SetMax(seps) + 1, Len(path))

\* A document: whether a pdfplumber call fails on it, its number of pages,
\* and what page 1 yields.
MkDoc(tables, raw, layout) ==
    [fault |-> "none", pages |-> 1, tables |-> tables, raw |-> raw,
     layout |-> layout]

NoPage ==
    [fault |-> "none", pages |-> 0, tables |-> <<>>, raw |-> None,
     layout |-> None]

Faulty(fault) == [MkDoc(<<>>, None, None) EXCEPT !.fault = fault]

NotCalled == [called |-> FALSE, raised |-> FALSE, results |-> <<>>]

Called(r) == [called |-> TRUE, raised |-> r.raised, results |-> r.results]

\* The record of lines 294-308 with a description that depends on the clock.
StampedByClock(path, meta, item, t) ==
    [filename      |-> Basename(path),
     customer      |-> meta.customer,
     well_name     |-> meta.well_name,
     load_out_date |-> meta.load_out_date,
     material_num  |-> item.material_num,
     description   |-> IF t = 0 THEN item.description ELSE <<>>,
     serial_trace  |-> item.serial,
     qty           |-> item.qty,
     extracted_at  |-> t]

\* The record of lines 294-308 without the quantity of the item.
StampedWithoutQty(path, meta, item, t) ==
    [filename      |-> Basename(path),
     customer      |-> meta.customer,
     well_name     |-> meta.well_name,
     load_out_date |-> meta.load_out_date,
     material_num  |-> item.material_num,
     description   |-> item.description,
     serial_trace  |-> item.serial,
     qty           |-> <<>>,
     extracted_at  |-> t]

\* The record built from one item (lines 294-308).
Stamped(path, meta, item, t) ==
    [filename      |-> Basename(path),
     customer      |-> meta.customer,
     well_name     |-> meta.well_name,
     load_out_date |-> meta.load_out_date,
     material_num  |-> item.material_num,
     description   |-> item.description,
     serial_trace  |-> item.serial,
     qty           |-> item.qty,
     extracted_at  |-> t]

\* process_pdf hands `recs` back to main, which extends all_records (411-413)
ReturnToMain(outcome, recs) ==
    /\ pc' = "loop"
    /\ page' = NoPage
    /\ all_records' = all_records \o recs
    /\ rets' = Append(rets, [filename |-> Basename(pdf_path),
                             outcome  |-> outcome,
                             records  |-> recs])

\* ------------------------------------------------------------------------
\* save_csv (extract_serials.py 317-359) and upload_to_sheet.py
\* ------------------------------------------------------------------------

\* datetime.now().isoformat(timespec="seconds") of the clock reading t: the
\* text a record carries as extracted_at.
isoformat(t) ==
    <<"2", "0", "2", "4", "T",
      <<"0", "1", "2", "3", "4", "5", "6", "7", "8", "9">>[t + 1]>>

\* record.get(field, "") as the text a writer gets: a record of the model
\* holds the clock reading where the code holds its isoformat text.
Get(record, field) ==
    IF field \notin DOMAIN record THEN <<>>
    ELSE IF field = "extracted_at" THEN isoformat(record[field])
    ELSE record[field]

CSV_HEADERS ==
    <<<<"F", "i", "l", "e", "n", "a", "m", "e">>,
      <<"C", "u", "s", "t", "o", "m", "e", "r">>,
      <<"W", "e", "l", "l", " ", "N", "a", "m", "e">>,
      <<"L", "o", "a", "d", " ", "O", "u", "t", " ", "D", "a", "t", "e">>,
      <<"M", "a", "t", "e", "r", "i", "a", "l", " ", "#">>,
      <<"D", "e", "s", "c", "r", "i", "p", "t", "i", "o", "n">>,
      <<"S", "e", "r", "i", "a", "l", " ", "/", " ", "T", "r", "a", "c", "e", " ",
  "#">>,
      <<"Q", "t", "y">>,
      <<"E", "x", "t", "r", "a", "c", "t", "e", "d", " ", "A", "t">>>>

\* The fields with material_num and description the other way round.
FieldsSwapped ==
    <<"filename", "customer", "well_name", "load_out_date", "description",
      "material_num", "serial_trace", "qty", "extracted_at">>

CSV_FIELDS ==
    <<"filename", "customer", "well_name", "load_out_date", "material_num",
      "description", "serial_trace", "qty", "extracted_at">>

\* csv.writer writes None as the empty text and a str as it is.
CsvText(value) == IF value = None THEN <<>> ELSE value

\* Line 356: the row of one record.
CsvRow(record) ==
    [k \in 1..Len(CSV_FIELDS) |-> CsvText(Get(record, CSV_FIELDS[k]))]

CsvRows(recs) == [i \in 1..Len(recs) |-> CsvRow(recs[i])]

\* save_csv on a file holding the rows `file` (none: missing or empty).
save_csv(file, recs, append_arg) ==
    IF append_arg /\ file # <<>> THEN file \o CsvRows(recs)
    ELSE <<CSV_HEADERS>> \o CsvRows(recs)

HEADERS ==
    <<<<"F", "i", "l", "e", "n", "a", "m", "e">>,
      <<"C", "u", "s", "t", "o", "m", "e", "r">>,
      <<"W", "e", "l", "l", " ", "N", "a", "m", "e">>,
      <<"L", "o", "a", "d", " ", "O", "u", "t", " ", "D", "a", "t", "e">>,
      <<"M", "a", "t", "e", "r", "i", "a", "l", " ", "#">>,
      <<"D", "e", "s", "c", "r", "i", "p", "t", "i", "o", "n">>,
      <<"S", "e", "r", "i", "a", "l", " ", "/", " ", "T", "r", "a", "c", "e", " ",
  "#">>,
      <<"Q", "t", "y">>,
      <<"E", "x", "t", "r", "a", "c", "t", "e", "d", " ", "A", "t">>>>

FIELD_MAP ==
    <<"filename", "customer", "well_name", "load_out_date", "material_num",
      "description", "serial_trace", "qty", "extracted_at">>

S_None == <<"N", "o", "n", "e">>

\* str(value)
Str(value) == IF value = None THEN S_None ELSE value

\* upload_to_sheet, line 91: the row of one record.
SheetRow(record) ==
    [k \in 1..Len(FIELD_MAP) |-> Str(Get(record, FIELD_MAP[k]))]

\* upload_to_sheet, lines 89-92
SheetRows(recs) ==
    <<HEADERS>> \o [i \in 1..Len(recs) |-> SheetRow(recs[i])]

\* The cells of a row up to column `n`, as values().get returns them:
\* without the empty cells at the end of the row.
RowOfRange(row, n) ==
    SubSeq(row, 1,
           SetMax({0} \cup {k \in 1..n : k <= Len(row) /\ row[k] # <<>>}))

\* sheets.values().get(range="Out!A:G") (line 73-75)
ValuesGet(rows, n) == [i \in 1..Len(rows) |-> RowOfRange(rows[i], n)]

\* Lines 79 and 99: the key of a row.
KeyOf(row) == <<row[1], row[5], row[7]>>

\* Lines 76-81 on the rows read: the header is skipped, and so are rows of
\* fewer than 7 cells.
KeysOf(values) ==
    {KeyOf(values[i]) : i \in {j \in 2..Len(values) : Len(values[j]) >= 7}}

_get_existing_keys(rows) == KeysOf(ValuesGet(rows, 7))

\* Lines 97-101: the rows, header left out, whose key is not an existing one.
NewRows(rows, existing_keys) ==
    Filter(Tail(rows),
           [i \in 1..(Len(rows) - 1) |->
               KeyOf(rows[i + 1]) \notin existing_keys])

\* Lines 103-116: nothing is sent when no row is new; values().append puts
\* the new rows after the last row of the sheet.
AppendRows(rows, new_rows) ==
    IF new_rows = <<>> THEN rows ELSE rows \o new_rows

\* upload_to_sheet on a sheet holding `rows`: the rows it holds afterwards.
upload_to_sheet(rows, recs, append_arg) ==
    IF append_arg
    THEN AppendRows(rows, NewRows(SheetRows(recs), _get_existing_keys(rows)))
    ELSE SheetRows(recs)

\* main, lines 397-408
Start ==
    /\ pc = "start"
    /\ runs > 0
    /\ runs' = runs - 1
    /\ pdf_files' = Sorted(Glob(dir))
    /\ pc' = IF Glob(dir) = {} THEN "exit" ELSE "loop"
    /\ all_records' = <<>>
    /\ rets' = <<>>
    /\ UNCHANGED <<dir, disk, pdf_path, page, page_text, info,
                   loadout_serials, records, now, info_called, table_out,
                   text_out, output>>
    /\ UNCHANGED <<append, csv, mailbox, unread, messages, sheet>>

\* main, line 409-411: the next path; process_pdf, lines 268-269
NextPdf ==
    /\ pc = "loop"
    /\ pdf_files # <<>>
    /\ pdf_path' = Head(pdf_files)
    /\ pdf_files' = Tail(pdf_files)
    /\ pc' = "open"
    /\ records' = <<>>
    /\ page_text' = <<>>
    /\ info' = EmptyInfo
    /\ loadout_serials' = <<>>
    /\ info_called' = FALSE
    /\ table_out' = NotCalled
    /\ text_out' = NotCalled
    /\ UNCHANGED <<runs, dir, disk, all_records, page, now, rets, output>>
    /\ UNCHANGED <<append, csv, mailbox, unread, messages, sheet>>

\* Lines 272-278 without the check of line 273.
OpenFirstPage ==
    /\ pc = "open"
    /\ \E d \in disk[pdf_path] :
         IF d.fault \in {"open", "extract_text"}
         THEN /\ pc' = "except"
              /\ UNCHANGED <<page, page_text>>
         ELSE /\ pc' = "info"
              /\ page' = d
              /\ page_text' = TextOr(d.raw)
    /\ UNCHANGED <<runs, dir, disk, pdf_files, all_records, pdf_path, info,
                   loadout_serials, records, now, info_called, table_out,
                   text_out, rets, output>>
    /\ UNCHANGED <<append, csv, mailbox, unread, messages, sheet>>

\* process_pdf, lines 272-278
Open ==
    /\ pc = "open"
    /\ \E d \in disk[pdf_path] :
         IF d.fault = "open"
         THEN /\ pc' = "except"
              /\ UNCHANGED <<page, page_text, all_records, rets>>
         ELSE IF d.pages = 0
         THEN /\ ReturnToMain("warning", <<>>)
              /\ UNCHANGED page_text
         ELSE IF d.fault = "extract_text"
         THEN /\ pc' = "except"
              /\ page' = d
              /\ UNCHANGED <<page_text, all_records, rets>>
         ELSE /\ pc' = "info"
              /\ page' = d
              /\ page_text' = TextOr(d.raw)
              /\ UNCHANGED <<all_records, rets>>
    /\ UNCHANGED <<runs, dir, disk, pdf_files, pdf_path, info,
                   loadout_serials, records, now, info_called, table_out,
                   text_out, output>>
    /\ UNCHANGED <<append, csv, mailbox, unread, messages, sheet>>

\* process_pdf, line 281
Info ==
    /\ pc = "info"
    /\ info' = extract_general_info(page.layout, page.raw)
    /\ info_called' = TRUE
    /\ pc' = "table"
    /\ UNCHANGED <<runs, dir, disk, pdf_files, all_records, pdf_path, page,
                   page_text, loadout_serials, records, now, table_out,
                   text_out, rets, output>>
    /\ UNCHANGED <<append, csv, mailbox, unread, messages, sheet>>

\* Line 286 with the fallback taken whatever the table extractor returned.
AlwaysText(results) == "text"

\* Where line 286 sends the run: `if not loadout_serials`
AfterTable(results) == IF results = <<>> THEN "text" ELSE "stamp"

\* process_pdf, lines 284-286
Table ==
    /\ pc = "table"
    /\ LET r == IF page.fault = "extract_tables" THEN Raised(<<>>)
                ELSE extract_loadout_serials_from_table(page.tables)
       IN  /\ table_out' = Called(r)
           /\ IF r.raised
              THEN pc' = "except" /\ UNCHANGED loadout_serials
              ELSE pc' = AfterTable(r.results)
                    /\ loadout_serials' = r.results
    /\ UNCHANGED <<runs, dir, disk, pdf_files, all_records, pdf_path, page,
                   page_text, info, records, now, info_called, text_out,
                   rets, output>>
    /\ UNCHANGED <<append, csv, mailbox, unread, messages, sheet>>

\* process_pdf, lines 287-291
Text ==
    /\ pc = "text"
    /\ LET r == extract_loadout_serials_from_text(page_text)
       IN  /\ text_out' = Called(Returned(r))
           /\ loadout_serials' = r
    /\ pc' = "stamp"
    /\ UNCHANGED <<runs, dir, disk, pdf_files, all_records, pdf_path, page,
                   page_text, info, records, now, info_called, table_out,
                   rets, output>>
    /\ UNCHANGED <<append, csv, mailbox, unread, messages, sheet>>

\* process_pdf, lines 293-308: one turn of the loop.  The loop is inside the
\* try of line 270, so an exception raised in it (fault "stamp", raised once
\* a record has been built) reaches the handler of line 310.
Stamp ==
    /\ pc = "stamp"
    /\ Len(records) < Len(loadout_serials)
    /\ IF page.fault = "stamp" /\ records # <<>>
       THEN /\ pc' = "except"
            /\ UNCHANGED <<now, records>>
       ELSE /\ \E t \in now..MaxClock :
                 /\ now' = t
                 /\ records' = Append(records,
                        Stamped(pdf_path, info,
                                loadout_serials[Len(records) + 1], t))
            /\ UNCHANGED pc
    /\ UNCHANGED <<runs, dir, disk, pdf_files, all_records, pdf_path,
                   page, page_text, info, loadout_serials, info_called,
                   table_out, text_out, rets, output>>
    /\ UNCHANGED <<append, csv, mailbox, unread, messages, sheet>>

\* process_pdf, line 314
Return ==
    /\ pc = "stamp"
    /\ Len(records) = Len(loadout_serials)
    /\ ReturnToMain("ok", records)
    /\ UNCHANGED <<runs, dir, disk, pdf_files, pdf_path, page_text, info,
                   loadout_serials, records, now, info_called, table_out,
                   text_out, output>>
    /\ UNCHANGED <<append, csv, mailbox, unread, messages, sheet>>

\* The handler of lines 310-312 letting the exception leave main.
ExceptAborts ==
    /\ pc = "except"
    /\ pc' = "exit"
    /\ UNCHANGED <<runs, dir, disk, pdf_files, all_records, pdf_path, page,
                   page_text, info, loadout_serials, records, now,
                   info_called, table_out, text_out, rets, output>>
    /\ UNCHANGED <<append, csv, mailbox, unread, messages, sheet>>

\* The handler of lines 310-312 returning the records built so far.
ExceptKeepsRecords ==
    /\ pc = "except"
    /\ ReturnToMain("error", records)
    /\ UNCHANGED <<runs, dir, disk, pdf_files, pdf_path, page_text, info,
                   loadout_serials, records, now, info_called, table_out,
                   text_out, output>>
    /\ UNCHANGED <<append, csv, mailbox, unread, messages, sheet>>

\* process_pdf, lines 310-312
Except ==
    /\ pc = "except"
    /\ ReturnToMain("error", <<>>)
    /\ UNCHANGED <<runs, dir, disk, pdf_files, pdf_path, page_text, info,
                   loadout_serials, records, now, info_called, table_out,
                   text_out, output>>
    /\ UNCHANGED <<append, csv, mailbox, unread, messages, sheet>>

\* main, lines 415-421
Save ==
    /\ pc = "loop"
    /\ pdf_files = <<>>
    /\ output' = Append(output, all_records)
    /\ \E json \in BOOLEAN, append_arg \in BOOLEAN :
         /\ append' = append_arg
         /\ csv' = IF json THEN csv
                   ELSE save_csv(csv, all_records, append_arg)
    /\ pc' = "start"
    /\ UNCHANGED <<runs, dir, disk, pdf_files, all_records, pdf_path, page,
                   page_text, info, loadout_serials, records, now,
                   info_called, table_out, text_out, rets>>
    /\ UNCHANGED <<mailbox, unread, messages, sheet>>

\* ------------------------------------------------------------------------
\* gmail_poll.py: main (162-269) and what it calls
\* ------------------------------------------------------------------------

\* PDF_DIR (line 43), as the prefix of the paths below it
PDF_DIR == <<"t", "/">>

\* c.isalnum() or c in ".-_ " (line 138)
IsSafeChar(c) ==
    c \in Upper \cup Lower \cup Digit \cup {".", "-", "_", " "}

\* Lines 137-139
safe_filename(filename) ==
    [i \in 1..Len(filename) |->
        IF IsSafeChar(filename[i]) THEN filename[i] ELSE "_"]

\* filename.lower()
LowerStr(s) == [i \in 1..Len(s) |-> LowerChar(s[i])]

\* Lines 122-128: the part is a PDF attachment to fetch.
IsPdfPart(part) ==
    EndsWith(LowerStr(part.filename), S_pdf) /\ part.attachment_id

\* Lines 120-148: the parts that are downloaded, in the order of the message
Downloaded(parts) ==
    Filter(parts, [i \in 1..Len(parts) |-> IsPdfPart(parts[i])])

\* Lines 136-140: where a part is written
PathOf(part) == PDF_DIR \o safe_filename(part.filename)

\* Line 147: pdf_files
DownloadedPaths(kept) == [i \in 1..Len(kept) |-> PathOf(kept[i])]

RECURSIVE Written(_, _)
\* Lines 142-143: each part is written to its path, a later one over an
\* earlier one of the same path.
Written(files, kept) ==
    IF kept = <<>> THEN files
    ELSE Written((PathOf(Head(kept)) :> {Head(kept).data}) @@ files,
                 Tail(kept))

\* The query of line 95 on one message: unread, with an attachment named
\* as a PDF.
MatchesQuery(i) ==
    /\ i \in unread
    /\ \E k \in 1..Len(mailbox[i].parts) :
          EndsWith(LowerStr(mailbox[i].parts[k].filename), S_pdf)

maxResults == 20

FirstResults(found) ==
    IF Len(found) <= maxResults THEN found ELSE SubSeq(found, 1, maxResults)

\* find_unread_pdf_emails (93-104): the ids of the first maxResults messages
\* the query matches, in the order of the service.
find_unread_pdf_emails ==
    FirstResults(Filter([i \in 1..Len(mailbox) |-> i],
                        [i \in 1..Len(mailbox) |-> MatchesQuery(i)]))

\* The messages found start the loop of line 237, unless none is found or
\* the run is a dry run.
PollFound(found, dry_run) ==
    /\ messages' = IF dry_run THEN <<>> ELSE found
    /\ pc' = IF found = <<>> \/ dry_run THEN "start" ELSE "message"

\* gmail_poll main, lines 215-235
PollStart ==
    /\ pc = "start"
    /\ runs > 0
    /\ runs' = runs - 1
    /\ all_records' = <<>>
    /\ rets' = <<>>
    /\ \E dry_run \in BOOLEAN : PollFound(find_unread_pdf_emails, dry_run)
    /\ UNCHANGED <<dir, disk, pdf_files, pdf_path, page, page_text, info,
                   loadout_serials, records, now, info_called, table_out,
                   text_out, output, append, csv, mailbox, unread, sheet>>

\* Lines 241-246 on the parts downloaded: with none, the message is marked
\* as read and the loop goes on.
AfterDownload(kept) ==
    /\ pdf_files' = DownloadedPaths(kept)
    /\ disk' = Written(disk, kept)
    /\ IF kept = <<>>
       THEN /\ unread' = unread \ {Head(messages)}
            /\ messages' = Tail(messages)
            /\ pc' = "message"
       ELSE /\ pc' = "loop"
            /\ UNCHANGED <<unread, messages>>

\* gmail_poll main, lines 237-246
NextMessage ==
    /\ pc = "message"
    /\ messages # <<>>
    /\ AfterDownload(Downloaded(mailbox[Head(messages)].parts))
    /\ UNCHANGED <<runs, dir, all_records, pdf_path, page, page_text, info,
                   loadout_serials, records, now, info_called, table_out,
                   text_out, rets, output, append, csv, mailbox, sheet>>

\* The message is marked as read only when the poll has records.
MarkReadIfRecords ==
    /\ pc = "loop"
    /\ pdf_files = <<>>
    /\ unread' = IF all_records = <<>> THEN unread
                 ELSE unread \ {Head(messages)}
    /\ messages' = Tail(messages)
    /\ pc' = "message"
    /\ UNCHANGED <<runs, dir, disk, pdf_files, all_records, pdf_path, page,
                   page_text, info, loadout_serials, records, now,
                   info_called, table_out, text_out, rets, output, append,
                   csv, mailbox, sheet>>

\* gmail_poll main, lines 256-258: mark_as_read (153-159)
MarkRead ==
    /\ pc = "loop"
    /\ pdf_files = <<>>
    /\ unread' = unread \ {Head(messages)}
    /\ messages' = Tail(messages)
    /\ pc' = "message"
    /\ UNCHANGED <<runs, dir, disk, pdf_files, all_records, pdf_path, page,
                   page_text, info, loadout_serials, records, now,
                   info_called, table_out, text_out, rets, output, append,
                   csv, mailbox, sheet>>

\* gmail_poll main, lines 260-269
PollUpload ==
    /\ pc = "message"
    /\ messages = <<>>
    /\ sheet' = IF all_records # <<>>
                THEN upload_to_sheet(sheet, all_records, TRUE)
                ELSE sheet
    /\ append' = TRUE
    /\ output' = Append(output, all_records)
    /\ pc' = "start"
    /\ UNCHANGED <<runs, dir, disk, pdf_files, all_records, pdf_path, page,
                   page_text, info, loadout_serials, records, now,
                   info_called, table_out, text_out, rets, csv, mailbox,
                   unread, messages>>

\* A record of an input file of upload_to_sheet.py.
InputRecord(serial, description, t) ==
    [filename      |-> <<"a", ".", "p", "d", "f">>,
     customer      |-> <<>>,
     well_name     |-> <<>>,
     load_out_date |-> <<>>,
     material_num  |-> <<"M", "9">>,
     description   |-> description,
     serial_trace  |-> serial,
     qty           |-> <<"1">>,
     extracted_at  |-> t]

R_a == InputRecord(<<"S", "9">>, <<"D", "9">>, 0)

R_b == InputRecord(<<"S", "1">>, <<"D", "9">>, 0)

\* The key of R_a with another description, read at another time.
R_c == InputRecord(<<"S", "9">>, <<"D", "8">>, 1)

R_noserial == InputRecord(<<>>, <<"D", "9">>, 0)

\* A record without its last fields.
R_short ==
    [filename     |-> <<"b", ".", "p", "d", "f">>,
     material_num |-> <<"M", "9">>,
     serial_trace |-> <<"S", "9">>]

\* What --input may hold.
InputFiles ==
    {<<>>, <<R_a>>, <<R_a, R_b>>, <<R_a, R_c>>, <<R_noserial>>, <<R_short>>}

\* upload_to_sheet.py main (133-175) on an input file holding `recs`
UploadInput(recs, append_arg) ==
    /\ sheet' = IF recs = <<>> THEN sheet
                ELSE upload_to_sheet(sheet, recs, append_arg)
    /\ append' = IF recs = <<>> THEN append ELSE append_arg
    /\ output' = IF recs = <<>> THEN output ELSE Append(output, recs)

\* upload_to_sheet.py main (133-175): the input is a file a run of
\* extract_serials.py wrote, or another file of records.
UploadMain ==
    /\ pc = "start"
    /\ runs > 0
    /\ runs' = runs - 1
    /\ \E recs \in InputFiles \cup {output[i] : i \in DOMAIN output},
          append_arg \in BOOLEAN : UploadInput(recs, append_arg)
    /\ UNCHANGED <<pc, dir, disk, pdf_files, all_records, pdf_path, page,
                   page_text, info, loadout_serials, records, now,
                   info_called, table_out, text_out, rets, csv, mailbox,
                   unread, messages>>

Next ==
    \/ Start
    \/ NextPdf
    \/ Open
    \/ Info
    \/ Table
    \/ Text
    \/ Stamp
    \/ Return
    \/ Except
    \/ Save

\* The CLI run followed by uploads of record lists: those the runs wrote
\* and those of other input files.
NextPipeline ==
    \/ Next
    \/ UploadMain

\* upload_to_sheet.py run again and again
NextUpload == UploadMain

\* gmail_poll.py run from the task scheduler
NextPoll ==
    \/ PollStart
    \/ NextMessage
    \/ NextPdf
    \/ Open
    \/ Info
    \/ Table
    \/ Text
    \/ Stamp
    \/ Return
    \/ Except
    \/ MarkRead
    \/ PollUpload

\* The state before the first run: `paths` in --dir, `contents` on disk.
InitRun(paths, contents, n) ==
    /\ pc = "start"
    /\ runs = n
    /\ dir = paths
    /\ disk = contents
    /\ pdf_files = <<>>
    /\ all_records = <<>>
    /\ pdf_path = <<>>
    /\ page = NoPage
    /\ page_text = <<>>
    /\ info = EmptyInfo
    /\ loadout_serials = <<>>
    /\ records = <<>>
    /\ now = 0
    /\ info_called = FALSE
    /\ table_out = NotCalled
    /\ text_out = NotCalled
    /\ rets = <<>>
    /\ output = <<>>
    /\ append = FALSE
    /\ csv = <<>>
    /\ messages = <<>>

\* The same with no mail and an empty sheet.
InitWith(paths, contents, n) ==
    /\ InitRun(paths, contents, n)
    /\ mailbox = <<>>
    /\ unread = {}
    /\ sheet = <<>>

\* ------------------------------------------------------------------------
\* The documents the runs are checked on
\* ------------------------------------------------------------------------

\* Stacked sub-values per table cell.
MaxSub == 3

\* Lines of a LOAD OUT LIST section in the page text.
MaxLines == 2

\* Lines after the "Sales Order/Planning Order Number" line.
MaxAfter == 2

SeqsUpTo(S, n) == UNION {[1..k -> S] : k \in 0..n}

Lines(seq) == Join(<<"\n">>, seq)

DigitChar(i) == <<"0", "1", "2", "3", "4", "5", "6", "7", "8", "9">>[i + 1]

H_MaterialNo == <<"M", "a", "t", "e", "r", "i", "a", "l", " ", "#">>

H_SerialTrace ==
    <<"S", "e", "r", "i", "a", "l", " ", "/", " ", "T", "r", "a", "c", "e",
      " ", "#">>

H_Item == <<"I", "t", "e", "m">>

H_Notes == <<"N", "o", "t", "e", "s">>

H_SerialMaterial ==
    <<"S", "e", "r", "i", "a", "l", " ", "M", "a", "t", "e", "r", "i", "a",
      "l">>

H_DescriptionQty ==
    <<"D", "e", "s", "c", "r", "i", "p", "t", "i", "o", "n", " ", "Q", "t",
      "y">>

H_TraceNo == <<" ", "T", "r", "a", "c", "e", " ", "N", "o">>

T_NA == <<"N", "/", "A">>

T_NoNe == <<"N", "o", "N", "e">>

T_none == <<" ", "n", "o", "n", "e">>

T_Qty == <<" ", "2", " ">>

L_Item ==
    <<"0", "0", "0", "1", "2", "3", "4", "5", "6", " ", "P", "r", "e", "s",
      "s", "u", "r", "e", " ", "G", "a", "u", "g", "e", " ", "O", "W", "S",
      "-", "9", "9", "8", "1", "-", "A", " ", "4">>

L_Bare ==
    <<"A", "B", " ", "V", "a", "l", "v", "e", " ", "1", "2", "3", "4", "5",
      "6", "7", "8">>

L_Head ==
    <<"M", "a", "t", "e", "r", "i", "a", "l", " ", "#", " ", "D", "e", "s",
      "c", "r", "i", "p", "t", "i", "o", "n", " ", "O", "W", "S", "-", "7">>

L_Desc ==
    <<"D", "e", "s", "c", "r", "i", "p", "t", "i", "o", "n", " ", "O", "W",
      "S", "-", "5">>

L_Eight ==
    <<"1", "2", "3", "4", "5", "6", "7", "8", " ", "V", "a", "l", "v", "e",
      " ", "O", "W", "S", "-", "4", " ", "2">>

L_Junk == <<"j", "u", "n", "k", " ", "1", "2", "3", "4">>

L_Two ==
    <<"G", "a", "u", "g", "e", " ", "O", "W", "S", "-", "1", " ", "8", "7",
      "6", "5", "4", "3", "2", "1", " ", "3">>

L_Verif ==
    <<"L", "o", "a", "d", " ", "O", "u", "t", " ", "V", "e", "r", "i", "f",
      "i", "c", "a", "t", "i", "o", "n">>

M_Cust ==
    <<"V", "Aring", "R", " ", "E", "N", "E", "R", "G", "I", "A", "S", "A",
      "-", "E", "B", "U", "S", " ", " ", "E", "E", "S", "S", "A", "_", "N",
      "O", "_", "1", " ", "2", "5", "_", "1", "1", "-", "A", "-", "4", " ",
      "H", " ", "O", "l", "a">>

M_Cust2 ==
    <<"V", "A", "R", " ", "E", "N", "E", "R", "G", "I", " ", "A", "S", "A",
      " ", " ", " ", "R", "E", "F", "-", "1">>

M_Cust3 ==
    <<"V", "A", "R", " ", "E", "N", "E", "R", "G", "I", " ", " ", "E", "E",
      "S", "S", "A", "_", "B", " ", "7", " ", "H">>

M_RawCust3 ==
    <<"V", "A", "R", " ", "E", "N", "E", "R", "G", "I", " ", "E", "E", "S",
      "S", "A", "_", "B", " ", "7", " ", "H">>

M_RawEbus ==
    <<"V", "A", "R", " ", "E", "N", "E", "R", "G", "I", " ", "E", "B", "U",
      "S">>

M_Junk ==
    <<"C", "o", "o", "r", "d", "i", "n", "a", "t", "o", "r", " ", "O", "l",
      "a">>

M_Date == <<"1", "2", " ", "M", "a", "y", " ", "2", "0", "2", "4">>

M_RawCust ==
    <<"x", " ", "V", "A", "R", " ", "E", "N", "E", "R", "G", "I", " ", "A",
      "S", "A", " ", "y">>

M_RawWell ==
    <<"E", "E", "S", "S", "A", "_", "B", " ", "7", " ", "K", "a", "r", "i">>

P_a == <<"d", "/", "a", ".", "p", "d", "f">>

P_B == <<"d", "/", "B", ".", "P", "D", "F">>

P_c == <<"d", "/", "c", ".", "p", "d", "f">>

P_txt == <<"d", "/", "a", ".", "t", "x", "t">>

\* The i-th stacked line of a serial cell: a serial, a token the extractor
\* skips, or a blank line.
SerialLine(kind, i) ==
    CASE kind = "ok"    -> IF i = 2 THEN <<" ", "S", DigitChar(i), " ">>
                           ELSE <<"S", DigitChar(i)>>
      [] kind = "na"    -> T_NA
      [] kind = "blank" -> <<" ">>

SerialCells ==
    {Lines([i \in 1..Len(k) |-> SerialLine(k[i], i)]) :
        k \in SeqsUpTo({"ok", "na", "blank"}, MaxSub)}

\* A cell with n stacked values c1..cn; None when n = 0.
StackedCell(c, n) ==
    IF n = 0 THEN None ELSE Lines([i \in 1..n |-> <<c, DigitChar(i)>>])

LoadOutHeader == <<H_MaterialNo, S_Description, H_SerialTrace, S_Qty>>

\* Data rows under LoadOutHeader: every serial cell, with material and
\* description cells of 0, 1 or 2 stacked values.
DataRows ==
    {<<StackedCell("M", n[1]), StackedCell("D", n[2]), s, T_Qty>> :
        s \in SerialCells, n \in {<<0, 2>>, <<1, 0>>, <<2, 1>>}}

GoodRow == <<<<"M", "9">>, <<"D", "9">>, Lines(<<T_NoNe, <<"S", "9">>>>), <<"1">>>>

ShortRow == <<<<"M", "8">>, <<"D", "8">>>>

BlankRow == <<None, <<>>, <<" ">>, <<>>>>

\* A row with two serials and a quantity cell of two lines.
StackedQtyRow ==
    <<<<"M", "7">>, <<"D", "7">>, Lines(<<<<"S", "7">>, <<"S", "8">>>>),
      Lines(<<<<" ", "2">>, <<"3", " ">>>>)>>

\* A row of three serials whose material cell has a blank second line.
GapRow ==
    <<Lines(<<<<"M", "1">>, <<>>, <<"M", "3">>>>),
      Lines(<<<<"D", "1">>, <<"D", "2">>, <<"D", "3">>>>),
      Lines(<<<<"G", "1">>, <<"G", "2">>, <<"G", "3">>>>), <<"1">>>>

\* What may follow the first data row.
MoreRows ==
    {<<>>, <<GoodRow>>, <<ShortRow>>, <<BlankRow, GoodRow>>, <<StackedQtyRow>>,
     <<GapRow>>}

LoadOutTables == {<<LoadOutHeader, r>> \o m : r \in DataRows, m \in MoreRows}

TwoSerials == Lines(<<<<"S", "1">>, <<"S", "2">>>>)

\* Tables with other header rows.
OtherTables ==
    {<<>>,
     <<LoadOutHeader>>,
     <<<<H_Item, H_Notes>>, <<TwoSerials, <<"x">>>>>>,
     <<<<>>, <<TwoSerials>>>>,
     <<<<H_TraceNo, S_Qty>>, <<TwoSerials, <<"5">>>>, <<>>, <<T_none, <<"1">>>>>>,
     <<<<H_SerialMaterial, H_DescriptionQty, None>>,
       <<TwoSerials, <<"D", "1">>, <<"7">>>>>>,
     <<<<S_Serial, S_Material, H_SerialTrace>>,
       <<<<"S", "1">>, <<"M", "1">>, <<"S", "3">>>>>>,
     <<<<S_Qty, S_Serial>>, <<<<"3">>>>>>}

RawItems == Lines(<<S_LoadOutList, L_Item, L_Bare>>)

LayoutFull == Lines(<<S_SalesOrder, M_Cust, S_LoadOutDate, M_Date>>)

LayoutDate == Lines(<<S_LoadOutDate, <<>>, M_Date>>)

\* One document of each kind: unreadable, empty, failing in a pdfplumber
\* call, failing in the record loop, with a load-out table, with a table
\* that breaks off, with only the text section, with nothing.
CoreDocs ==
    {Faulty("open"),
     [MkDoc(<<>>, None, None) EXCEPT !.pages = 0],
     Faulty("extract_text"),
     Faulty("extract_tables"),
     [MkDoc(<<<<LoadOutHeader, GoodRow, GoodRow>>>>, RawItems, LayoutFull)
        EXCEPT !.fault = "stamp"],
     MkDoc(<<<<LoadOutHeader, GoodRow>>>>, RawItems, LayoutFull),
     MkDoc(<<<<LoadOutHeader, GoodRow, ShortRow>>>>, RawItems, LayoutDate),
     MkDoc(<<>>, RawItems, LayoutFull),
     MkDoc(<<<<LoadOutHeader, BlankRow>>>>, Lines(<<L_Item>>), None)}

TablePages ==
    {<<tb>> : tb \in LoadOutTables \cup OtherTables}
        \cup {<<a, b>> : a \in OtherTables,
                         b \in {<<LoadOutHeader, GoodRow>>}}
        \cup {<<<<LoadOutHeader, GoodRow>>, b>> : b \in OtherTables}

TableDocs ==
    CoreDocs \cup {MkDoc(tp, RawItems, LayoutDate) : tp \in TablePages}

\* Page texts: lines before the marker, the marker, section lines, and what
\* follows the section.
SectionLines ==
    {L_Item, L_Bare, L_Head, L_Desc, L_Junk, L_Two, L_Eight, <<>>}

PageTexts ==
    {Lines(pre \o <<S_LoadOutList>> \o sec \o post) :
        pre  \in {<<>>, <<L_Item>>},
        sec  \in SeqsUpTo(SectionLines, MaxLines),
        post \in {<<>>, <<L_Verif>>, <<L_Verif, L_Bare>>}}
      \cup {Lines(sec) : sec \in SeqsUpTo(SectionLines, MaxLines)}

TextDocs ==
    CoreDocs \cup {MkDoc(<<>>, tx, None) : tx \in PageTexts}

\* Layout texts: the header line and what follows it, the date block.
AfterLines == {<<>>, S_Shipping, M_Junk, M_Cust, M_Cust2, M_Cust3}

LayoutTexts ==
    {Lines(<<S_SalesOrder>> \o af) : af \in SeqsUpTo(AfterLines, MaxAfter)}
      \cup {Lines(<<M_Cust>>), Lines(<<S_LoadOutDate>>),
            Lines(<<S_LoadOutDate, M_Date>>),
            Lines(<<S_LoadOutDate, M_Junk, M_Date>>),
            Lines(<<S_LoadOutDate, M_Junk, M_Junk, M_Date>>),
            Lines(<<M_Date, S_LoadOutDate>>)}

RawTexts ==
    {None, Lines(<<M_Junk>>), Lines(<<M_RawCust>>), Lines(<<M_Junk, M_RawWell>>),
     Lines(<<M_RawWell, M_RawCust>>), Lines(<<M_Junk, M_RawCust3>>),
     Lines(<<M_RawWell, M_RawEbus>>)}

MetaDocs ==
    CoreDocs
      \cup {MkDoc(<<>>, rw, ly) : rw \in RawTexts, ly \in LayoutTexts \cup {None}}

\* ------------------------------------------------------------------------
\* Specifications
\* ------------------------------------------------------------------------

\* One PDF in --dir with fixed bytes, the script run MaxRuns times.
OneFile(docs, n) ==
    \E d \in docs : InitWith({P_a, P_txt}, [p \in {P_a} |-> {d}], n)

Init == OneFile(CoreDocs, MaxRuns)

Spec == Init /\ [][Next]_vars

InitTable == OneFile(TableDocs, 1)

SpecTable == InitTable /\ [][Next]_vars

InitText == OneFile(TextDocs, 1)

SpecText == InitText /\ [][Next]_vars

InitMeta == OneFile(MetaDocs, 1)

SpecMeta == InitMeta /\ [][Next]_vars

\* Up to MaxFiles PDFs in --dir, each read when it is opened.
BatchPaths == {Sorted({P_a, P_B, P_c})[i] : i \in 1..MaxFiles}

InitBatch == InitWith(BatchPaths \cup {P_txt}, [p \in BatchPaths |-> CoreDocs], 1)

SpecBatch == InitBatch /\ [][Next]_vars

\* The sheet before the first upload: empty, with its header only, or with
\* one row.
Sheets == {<<>>, <<HEADERS>>, <<HEADERS, SheetRow(R_a)>>}

\* One PDF in --dir, runs of extract_serials.py and of upload_to_sheet.py.
InitPipeline ==
    /\ \E d \in CoreDocs : InitRun({P_a, P_txt}, [p \in {P_a} |-> {d}], MaxRuns)
    /\ mailbox = <<>>
    /\ unread = {}
    /\ sheet \in Sheets

SpecPipeline == InitPipeline /\ [][NextPipeline]_vars

\* No PDF and no mail: MaxRuns runs of upload_to_sheet.py on a sheet.
InitUpload ==
    /\ InitRun({}, <<>>, MaxRuns)
    /\ mailbox = <<>>
    /\ unread = {}
    /\ sheet \in Sheets

SpecUpload == InitUpload /\ [][NextUpload]_vars

Part(filename, data) ==
    [filename |-> filename, attachment_id |-> TRUE, data |-> data]

D_Table == MkDoc(<<<<LoadOutHeader, GoodRow>>>>, RawItems, LayoutFull)

D_Twice == MkDoc(<<<<LoadOutHeader, GoodRow, GoodRow>>>>, RawItems, LayoutFull)

D_Text == MkDoc(<<>>, RawItems, LayoutFull)

F_a == <<"a", ".", "p", "d", "f">>

F_b == <<"b", ".", "P", "D", "F">>

F_hash == <<"a", "#", ".", "p", "d", "f">>

MessageKinds ==
    {[parts |-> <<Part(F_b, D_Table), Part(F_a, D_Text)>>],
     [parts |-> <<Part(F_a, D_Table)>>],
     [parts |-> <<Part(F_a, D_Twice)>>],
     [parts |-> <<Part(F_hash, Faulty("open"))>>],
     [parts |-> <<[Part(F_a, D_Table) EXCEPT !.attachment_id = FALSE]>>]}

\* Mailboxes of up to two messages.
Mailboxes ==
    {<<>>} \cup {<<m>> : m \in MessageKinds}
           \cup {<<m, n>> : m \in MessageKinds, n \in MessageKinds}

\* A mailbox of unread messages, polled MaxRuns times.
InitPoll ==
    /\ InitRun({}, <<>>, MaxRuns)
    /\ mailbox \in Mailboxes
    /\ unread = 1..Len(mailbox)
    /\ sheet \in Sheets

SpecPoll == InitPoll /\ [][NextPoll]_vars

\* ------------------------------------------------------------------------
\* Properties of process_pdf and the extractors
\* ------------------------------------------------------------------------

\* The extractor's item a record was built from.
ItemOfRecord(rec) ==
    [material_num |-> rec.material_num,
     description  |-> rec.description,
     serial       |-> rec.serial_trace,
     qty          |-> rec.qty]

\* page1 of the document is open and the table extractor has returned.
TableReturned == pc \in {"text", "stamp"}

\* C1: for every document the text extractor is called if and only if the
\* table extractor returned no item for page 1; the items the records are
\* built from are then the text extractor's result, and they are the table
\* extractor's result when that is not empty; the two are never merged.
C1_FallbackIffTableEmpty ==
    /\ text_out.called =>
         table_out.called /\ ~table_out.raised /\ table_out.results = <<>>
    /\ pc = "stamp" =>
         /\ table_out.called /\ ~table_out.raised
         /\ IF table_out.results = <<>>
            THEN text_out.called /\ loadout_serials = text_out.results
            ELSE ~text_out.called /\ loadout_serials = table_out.results
    /\ \A i \in 1..Len(records) : ItemOfRecord(records[i]) = loadout_serials[i]

\* A page with tables that yield nothing, whose text section yields items.
C1_Witness ==
    /\ pc = "stamp"
    /\ page.tables # <<>>
    /\ table_out = Called(Returned(<<>>))
    /\ text_out.called
    /\ text_out.results # <<>>
    /\ loadout_serials = text_out.results

\* sub occurs in s, character by character.
HasSub(sub, s) ==
    \E i \in 1..(Len(s) - Len(sub) + 1) :
        \A j \in 1..Len(sub) : s[i + j - 1] = sub[j]

\* The table has a header row, with neither "Serial" nor "Trace" in it.
OtherHeader(table) ==
    /\ Len(table) >= 1
    /\ ~HasSub(S_Serial, HeaderText(table[1]))
    /\ ~HasSub(S_Trace, HeaderText(table[1]))

WithoutOther(tables) ==
    Filter(tables, [i \in 1..Len(tables) |-> ~OtherHeader(tables[i])])

\* C2: a table whose header row contains neither "Serial" nor "Trace"
\* contributes no item: the table extractor does on the page what it does on
\* the page without such tables; when every table of the page is such a
\* table it returns the empty list and does not raise.
C2_OtherHeadersGiveNothing ==
    TableReturned \/ (pc = "except" /\ table_out.called
                         /\ page.fault # "extract_tables") =>
        /\ table_out =
             Called(extract_loadout_serials_from_table(WithoutOther(page.tables)))
        /\ (\A i \in 1..Len(page.tables) : OtherHeader(page.tables[i])) =>
             table_out = Called(Returned(<<>>))

\* A page with a load-out table and a table under another header row that
\* has data rows: the items come from the load-out table alone.
C2_Witness ==
    /\ TableReturned
    /\ Len(page.tables) = 2
    /\ \E i \in 1..2 : OtherHeader(page.tables[i]) /\ Len(page.tables[i]) >= 2
    /\ table_out.results # <<>>
    /\ table_out =
         Called(extract_loadout_serials_from_table(WithoutOther(page.tables)))

\* The cells of a data row under LoadOutHeader.
MaterialsOf(row) == StrippedNonEmptyLines(CellText(row, 1))

DescriptionsOf(row) == StrippedNonEmptyLines(CellText(row, 2))

SerialsOf(row) == StrippedNonEmptyLines(CellText(row, 3))

\* Row r of table t is a non-blank data row under LoadOutHeader.
IsLoadOutRow(t, r) ==
    /\ page.tables[t][1] = LoadOutHeader
    /\ ~IsBlankRow(page.tables[t][r])

\* C3: the item for the i-th serial of a data row has the i-th material of
\* the row if there is one, else the first material if there is any, else
\* the empty string; its description follows the same rule.
C3_FirstValueCarriesForward ==
    TableReturned =>
        \A t \in 1..Len(page.tables) : \A r \in 2..Len(page.tables[t]) :
            IsLoadOutRow(t, r) =>
                LET row == page.tables[t][r]
                IN  \A i \in 1..Len(SerialsOf(row)) :
                    \A k \in 1..Len(table_out.results) :
                        table_out.results[k].serial = SerialsOf(row)[i] =>
                          /\ table_out.results[k].material_num =
                               IF i <= Len(MaterialsOf(row))
                               THEN MaterialsOf(row)[i]
                               ELSE IF MaterialsOf(row) # <<>>
                                    THEN MaterialsOf(row)[1] ELSE <<>>
                          /\ table_out.results[k].description =
                               IF i <= Len(DescriptionsOf(row))
                               THEN DescriptionsOf(row)[i]
                               ELSE IF DescriptionsOf(row) # <<>>
                                    THEN DescriptionsOf(row)[1] ELSE <<>>

\* A row with two materials, one description and three serials: the third
\* item has the first material, not the second.
C3_Witness ==
    /\ TableReturned
    /\ Len(page.tables) = 1
    /\ Len(page.tables[1]) >= 2
    /\ page.tables[1][1] = LoadOutHeader
    /\ MaterialsOf(page.tables[1][2]) = << <<"M", "1">>, <<"M", "2">> >>
    /\ \E k \in 1..Len(table_out.results) :
         /\ table_out.results[k].serial = <<"S", "3">>
         /\ table_out.results[k].material_num = <<"M", "1">>
         /\ table_out.results[k].description = <<"D", "1">>

\* The serial is not empty after trimming and is neither "none" nor "n/a",
\* whatever the case of its letters.
RealSerial(s) ==
    Strip(s) # <<>> /\ StrLower(Strip(s)) \notin {S_none, S_na}

\* C4: every item of the table extractor and of the text extractor, and so
\* every record, has a serial that is not empty after trimming and is not
\* "none" or "n/a" in any case; such a token never gives an item.
C4_NoPlaceholderSerial ==
    /\ \A i \in 1..Len(table_out.results) :
         RealSerial(table_out.results[i].serial)
    /\ \A i \in 1..Len(text_out.results) :
         RealSerial(text_out.results[i].serial)
    /\ \A i \in 1..Len(loadout_serials) : RealSerial(loadout_serials[i].serial)
    /\ \A i \in 1..Len(all_records) : RealSerial(all_records[i].serial_trace)

\* A serial cell with an "N/A" line among serials: the items are those of
\* the other lines.
C4_Witness ==
    /\ pc = "stamp"
    /\ Len(page.tables) = 1
    /\ Len(page.tables[1]) = 2
    /\ page.tables[1][1] = LoadOutHeader
    /\ \E i \in 1..Len(SerialsOf(page.tables[1][2])) :
         SerialsOf(page.tables[1][2])[i] = T_NA
    /\ table_out.results # <<>>
    /\ \A k \in 1..Len(table_out.results) :
         table_out.results[k].serial # T_NA

RECURSIVE NonEmptyTokens(_)
\* The lines of the serial cells of the non-blank rows that are not empty
\* after trimming.
NonEmptyTokens(rows) ==
    IF rows = <<>> THEN 0
    ELSE (IF IsBlankRow(Head(rows)) THEN 0 ELSE Len(SerialsOf(Head(rows))))
            + NonEmptyTokens(Tail(rows))

RECURSIVE RealTokens(_)
\* Those of them that are neither "none" nor "n/a".
RealTokens(rows) ==
    IF rows = <<>> THEN 0
    ELSE (IF IsBlankRow(Head(rows)) THEN 0
          ELSE Cardinality({i \in 1..Len(SerialsOf(Head(rows))) :
                               RealSerial(SerialsOf(Head(rows))[i])}))
            + RealTokens(Tail(rows))

\* The page has one table, under LoadOutHeader, and the extractor returned:
\* every non-blank row has a cell in each of the four columns.
OneLoadOutTable ==
    /\ TableReturned
    /\ Len(page.tables) = 1
    /\ Len(page.tables[1]) >= 2
    /\ page.tables[1][1] = LoadOutHeader

RECURSIVE RecordsOf(_)
\* The records of the returns of process_pdf, in order.
RecordsOf(returns) ==
    IF returns = <<>> THEN <<>>
    ELSE Head(returns).records \o RecordsOf(Tail(returns))

\* C6: a failure while a document is processed is caught in process_pdf,
\* which returns the empty list for it; the exception does not reach main:
\* the run only ends without saving when --dir holds no PDF, every PDF of
\* --dir is processed, and the records of the documents after a failing one
\* are in the output.
C6_FailureIsIsolated ==
    /\ \A k \in 1..Len(rets) :
         rets[k].outcome = "error" => rets[k].records = <<>>
    /\ all_records = RecordsOf(rets)
    /\ pc = "exit" => Glob(dir) = {}
    /\ pc = "start" /\ output # <<>> =>
         /\ Len(rets) = Cardinality(Glob(dir))
         /\ output[Len(output)] = RecordsOf(rets)

\* A batch whose first document fails and whose second gives records.
C6_Witness ==
    /\ pc = "start"
    /\ Len(output) = 1
    /\ Len(rets) = 2
    /\ rets[1].outcome = "error"
    /\ rets[2].outcome = "ok"
    /\ rets[2].records # <<>>
    /\ output[1] = rets[2].records

\* C7: a document gives the records of all its items or no record, never
\* some of them: when a failure comes after items were extracted (a later
\* row without a cell in an identified column, a failure in the record
\* loop) process_pdf returns the empty list, not the records built so far.
C7_AllOrNothing ==
    /\ \A k \in 1..Len(rets) :
         rets[k].outcome # "ok" => rets[k].records = <<>>
    /\ pc = "loop" /\ rets # <<>> =>
         \/ rets[Len(rets)].records = <<>>
         \/ /\ rets[Len(rets)].records = records
            /\ Len(records) = Len(loadout_serials)
            /\ \A i \in 1..Len(records) :
                 ItemOfRecord(records[i]) = loadout_serials[i]
            /\ ~table_out.raised
            /\ loadout_serials = IF text_out.called THEN text_out.results
                                 ELSE table_out.results

\* A table whose first row gave an item and whose second row has no serial
\* cell: nothing comes back.
C7_Witness ==
    /\ pc = "loop"
    /\ rets # <<>>
    /\ table_out.raised
    /\ table_out.results # <<>>
    /\ rets[Len(rets)].outcome = "error"
    /\ rets[Len(rets)].records = <<>>

\* The document at pdf_path opens and has no page.
ZeroPages ==
    /\ pdf_path \in DOMAIN disk
    /\ \A d \in disk[pdf_path] : d.pages = 0 /\ d.fault # "open"

\* C8: a document with zero pages gives the empty record list and a
\* warning, no exception, and neither extract_general_info nor one of the
\* two item extractors is called for it.
C8_ZeroPagesWarns ==
    ZeroPages =>
        /\ pc \notin {"info", "table", "text", "stamp", "except"}
        /\ ~info_called /\ ~table_out.called /\ ~text_out.called
        /\ pc = "loop" /\ rets # <<>> =>
             rets[Len(rets)] = [filename |-> Basename(pdf_path),
                                outcome  |-> "warning",
                                records  |-> <<>>]

\* A run over a document without pages, saved.
C8_Witness ==
    /\ ZeroPages
    /\ pc = "start"
    /\ Len(rets) = 1
    /\ rets[1].outcome = "warning"
    /\ output # <<>>
    /\ output[Len(output)] = <<>>

\* The records without their extracted_at.
Timeless(recs) == [i \in 1..Len(recs) |-> [recs[i] EXCEPT !.extracted_at = 0]]

NoMatch(pattern, text) ==
    \A i \in 1..Len(SplitLines(TextOr(text))) :
        ~ReSearch(pattern, SplitLines(TextOr(text))[i]).ok

\* C10: extract_general_info raises on no layout text and raw text (the run
\* goes on to the table extractor), and a field none of whose patterns has a
\* match in any line of the texts searched for it is the empty string.
C10_MetadataDefaultsToEmpty ==
    /\ pc = "except" /\ info_called => table_out.called
    /\ pc = "table" =>
         /\ info_called
         /\ NoMatch(CustomerRe, page.layout) /\ NoMatch(CustomerRawRe, page.raw)
              => info.customer = <<>>
         /\ NoMatch(WellRe, page.layout) /\ NoMatch(WellRawRe, page.raw)
              => info.well_name = <<>>
         /\ NoMatch(DateRe, page.layout) => info.load_out_date = <<>>

\* Texts with a header line and other lines, none with a pattern.
C10_Witness ==
    /\ pc = "table"
    /\ info_called
    /\ page.layout # None
    /\ page.raw # None
    /\ Contains(S_SalesOrder, page.layout)
    /\ Len(SplitLines(page.layout)) >= 2
    /\ NoMatch(CustomerRe, page.layout) /\ NoMatch(CustomerRawRe, page.raw)
    /\ NoMatch(WellRe, page.layout) /\ NoMatch(WellRawRe, page.raw)
    /\ NoMatch(DateRe, page.layout)
    /\ info = EmptyInfo

\* The stripped line has a match of the customer pattern, and what follows
\* the customer in it has a match of the well pattern.
CustomerThenWell(line, cust_match) ==
    /\ cust_match.ok
    /\ ReSearch(WellRe, Strip(Slice(line, cust_match.e1, Len(line)))).ok

MatchesCustomerWell(line) ==
    CustomerThenWell(Strip(line), ReSearch(CustomerRe, Strip(line)))

\* Line i of the text has the header phrase and one of the next two lines
\* matches the customer and well patterns.
HeaderThenCustomerWell(lines) ==
    \E i \in 1..Len(lines) :
        /\ HasSub(S_SalesOrder, lines[i])
        /\ \E j \in (i + 1)..(i + 2) :
             j <= Len(lines) /\ MatchesCustomerWell(lines[j])

\* C11, as stated: when the layout text has a line with "Sales Order/Planning
\* Order Number" followed within the next 2 lines by a line matching the
\* customer and well patterns, extract_general_info returns a customer and a
\* well name that are both non-empty.
C11_RecoversCustomerAndWell ==
    pc = "table" /\ HeaderThenCustomerWell(SplitLines(TextOr(page.layout))) =>
        info.customer # <<>> /\ info.well_name # <<>>

\* The lines between line s, the "LOAD OUT LIST" line, and the first later
\* line with "Load Out Verif" (the end of the text when there is none).
SectionTo(lines, s, ends) ==
    SubSeq(lines, s + 1, IF ends = {} THEN Len(lines) ELSE SetMin(ends) - 1)

SectionFrom(lines, starts) ==
    IF starts = {} THEN <<>>
    ELSE SectionTo(lines, SetMin(starts),
                   {j \in (SetMin(starts) + 1)..Len(lines) :
                       HasSub(S_LoadOutVerif, lines[j])})

MarkedLines(lines) ==
    SectionFrom(lines, {i \in 1..Len(lines) : lines[i] = S_LoadOutList})

\* The lines of the load-out section of a page text whose markers are
\* lines of their own.
MarkedSection(text) == MarkedLines(SplitLines(text))

\* How many elements of seq are x.
Count(seq, x) == Cardinality({i \in 1..Len(seq) : seq[i] = x})

PressureGauge ==
    [material_num |-> <<"0", "0", "0", "1", "2", "3", "4", "5", "6">>,
     description  |-> <<"P", "r", "e", "s", "s", "u", "r", "e", " ", "G", "a",
                       "u", "g", "e">>,
     serial       |-> <<"O", "W", "S", "-", "9", "9", "8", "1", "-", "A">>,
     qty          |-> <<"4">>]

\* C12: for each section line "000123456 Pressure Gauge OWS-9981-A 4" the
\* text extractor gives exactly one item, with material number "000123456",
\* description "Pressure Gauge", serial "OWS-9981-A" and qty "4".
C12_PressureGaugeLine ==
    text_out.called =>
        Count(text_out.results, PressureGauge)
            = Count(MarkedSection(page_text), L_Item)

\* A section with the line once, among other lines.
C12_Witness ==
    /\ text_out.called
    /\ Len(MarkedSection(page_text)) >= 2
    /\ Count(MarkedSection(page_text), L_Item) = 1
    /\ Count(text_out.results, PressureGauge) = 1

\* The trimmed text of the row's cell in column qty_col, the empty string
\* when the table has no quantity column.
QtyText(row, qty_col) ==
    IF qty_col = NoCol THEN <<>> ELSE Strip(StrOr(row[qty_col]))

\* Row r of table t of the page is a non-blank data row of a table the
\* extractor does not skip.
IsDataRow(t, r) ==
    /\ ~SkipTable(page.tables[t])
    /\ ~IsBlankRow(page.tables[t][r])

\* The items the extractor returned for the serial sub-values of the row.
ItemsOfRow(row, serial_col) ==
    {k \in 1..Len(table_out.results) :
        \E i \in 1..Len(StrippedNonEmptyLines(CellText(row, serial_col))) :
            table_out.results[k].serial
                = StrippedNonEmptyLines(CellText(row, serial_col))[i]}

\* C13: the quantity cell is not split per line: every item of a data row
\* has as qty the trimmed text of the row's quantity cell, the empty string
\* when the table has no quantity column.
C13_QtyNotSplit ==
    TableReturned =>
        \A t \in 1..Len(page.tables) : \A r \in 2..Len(page.tables[t]) :
            IsDataRow(t, r) =>
                \A k \in ItemsOfRow(page.tables[t][r],
                                    FindColumns(page.tables[t][1]).serial_col) :
                    table_out.results[k].qty
                        = QtyText(page.tables[t][r],
                                  FindColumns(page.tables[t][1]).qty_col)

\* A row with two serials and a quantity cell of two lines: both items have
\* the two lines as qty.
C13_Witness ==
    /\ TableReturned
    /\ \E k \in 1..Len(table_out.results) :
         /\ table_out.results[k].serial = <<"S", "7">>
         /\ table_out.results[k].qty = <<"2", "\n", "3">>
    /\ \E k \in 1..Len(table_out.results) :
         /\ table_out.results[k].serial = <<"S", "8">>
         /\ table_out.results[k].qty = <<"2", "\n", "3">>

\* The tokens that are serials, in their order.
RealOnes(tokens) ==
    Filter(tokens, [i \in 1..Len(tokens) |-> RealSerial(tokens[i])])

RECURSIVE RowSerials(_, _)
\* The serials of the non-blank rows, row by row.
RowSerials(rows, serial_col) ==
    IF rows = <<>> THEN <<>>
    ELSE (IF IsBlankRow(Head(rows)) THEN <<>>
          ELSE RealOnes(StrippedNonEmptyLines(CellText(Head(rows),
                                                       serial_col))))
            \o RowSerials(Tail(rows), serial_col)

RECURSIVE TableSerials(_)
\* The serials of the tables the extractor does not skip, table by table.
TableSerials(tables) ==
    IF tables = <<>> THEN <<>>
    ELSE (IF SkipTable(Head(tables)) THEN <<>>
          ELSE RowSerials(Tail(Head(tables)),
                          FindColumns(Head(tables)[1]).serial_col))
            \o TableSerials(Tail(tables))

\* C14: the result of the table extractor has the items of all qualifying
\* tables in table order, within a table in row order, within a row in the
\* order of the serial sub-values; none is moved or repeated.
C14_TableRowSubValueOrder ==
    TableReturned =>
        [k \in 1..Len(table_out.results) |-> table_out.results[k].serial]
            = TableSerials(page.tables)

\* A page with two qualifying tables, the second with two serials in a cell.
C14_Witness ==
    /\ TableReturned
    /\ Len(page.tables) = 2
    /\ [k \in 1..Len(table_out.results) |-> table_out.results[k].serial]
         = << <<"S", "9">>, <<"S", "1">>, <<"S", "2">> >>

\* C15, as stated: the text extractor returns the empty list when the page
\* text has no "LOAD OUT LIST"; otherwise every item comes from a line after
\* that marker and before the first following "Load Out Verif" (or the end
\* of the text): no line before the one or after the other gives an item.
C15_ItemsFromSectionOnly ==
    text_out.called =>
        /\ ~HasSub(S_LoadOutList, page_text) => text_out.results = <<>>
        /\ \A k \in 1..Len(text_out.results) :
             \E i \in 1..Len(MarkedSection(page_text)) :
                 HasSub(text_out.results[k].serial,
                        MarkedSection(page_text)[i])

\* The lines of the section the loop of line 225 runs over: group 1 of the
\* match of line 212.
LinesOfMatch(text, loadout_match) ==
    IF loadout_match.ok THEN SplitLines(Group1(text, loadout_match)) ELSE <<>>

SectionOf(text) == LinesOfMatch(text, ReSearch(LoadoutRe, text))

\* The line has a serial token and is not one the loop skips: an empty
\* line, or one with "Material #" or "Description".
SerialLineNotSkipped(line) ==
    /\ Strip(line) # <<>>
    /\ ~HasSub(S_MaterialHash, line)
    /\ ~HasSub(S_Description, line)
    /\ ReSearch(SerialRe, line).ok

ItemPerLine(section) ==
    /\ Len(text_out.results)
         = Cardinality({i \in 1..Len(section) :
                           SerialLineNotSkipped(section[i])})
    /\ Len(text_out.results) <= Len(section)

\* C16: the text extractor gives exactly one item for every section line
\* that has a serial token and is not skipped, and no more than one per
\* line: the items are never more than the lines of the section.
C16_OneItemPerSerialLine ==
    text_out.called => ItemPerLine(SectionOf(page_text))

\* A section of a line with two serial tokens and a skipped line with one:
\* one item.
C16_Witness ==
    /\ text_out.called
    /\ SectionOf(page_text) = <<L_Two, L_Head>>
    /\ Len(text_out.results) = 1
    /\ text_out.results[1].serial = <<"O", "W", "S", "-", "1">>

RECURSIVE Concatenated(_)
\* The record lists of the documents, one after the other.
Concatenated(returned) ==
    IF returned = <<>> THEN <<>>
    ELSE Head(returned).records \o Concatenated(Tail(returned))

\* The documents processed so far came in ascending order of filename.
Ascending(returned) ==
    \A i \in 1..(Len(returned) - 1) :
        ~StrLess(returned[i + 1].filename, returned[i].filename)

\* C17: in a batch run the documents are processed one at a time in
\* ascending sorted filename order, and the output list is the per-document
\* record lists concatenated in that order.
C17_SortedFilenameOrder ==
    /\ Ascending(rets)
    /\ all_records = Concatenated(rets)

NineLabels ==
    <<<<"F", "i", "l", "e", "n", "a", "m", "e">>,
      <<"C", "u", "s", "t", "o", "m", "e", "r">>,
      <<"W", "e", "l", "l", " ", "N", "a", "m", "e">>,
      <<"L", "o", "a", "d", " ", "O", "u", "t", " ", "D", "a", "t", "e">>,
      <<"M", "a", "t", "e", "r", "i", "a", "l", " ", "#">>,
      <<"D", "e", "s", "c", "r", "i", "p", "t", "i", "o", "n">>,
      <<"S", "e", "r", "i", "a", "l", " ", "/", " ", "T", "r", "a", "c", "e", " ",
  "#">>,
      <<"Q", "t", "y">>,
      <<"E", "x", "t", "r", "a", "c", "t", "e", "d", " ", "A", "t">>>>

\* The field of a record, empty when the record does not have it.
Field(record, name) == IF name \in DOMAIN record THEN record[name] ELSE <<>>

\* The value of a record that belongs under the k-th label.
ValueAt(record, k) ==
    CASE k = 1 -> Field(record, "filename")
      [] k = 2 -> Field(record, "customer")
      [] k = 3 -> Field(record, "well_name")
      [] k = 4 -> Field(record, "load_out_date")
      [] k = 5 -> Field(record, "material_num")
      [] k = 6 -> Field(record, "description")
      [] k = 7 -> Field(record, "serial_trace")
      [] k = 8 -> Field(record, "qty")
      [] k = 9 -> IF "extracted_at" \in DOMAIN record
                  THEN isoformat(record.extracted_at) ELSE <<>>

RowIsRecord(row, record) ==
    Len(row) = 9 /\ \A k \in 1..9 : row[k] = ValueAt(record, k)

\* The rows hold the nine labels first and end with the rows of `recs`.
LabelsThenRecords(rows, recs) ==
    /\ Len(rows) >= Len(recs) + 1
    /\ rows[1] = NineLabels
    /\ \A i \in 1..Len(recs) :
          RowIsRecord(rows[Len(rows) - Len(recs) + i], recs[i])

\* Every row after the first `n` is the row of one of `recs`.
AddedAreRecords(rows, n, recs) ==
    \A j \in (n + 1)..Len(rows) :
        \E i \in 1..Len(recs) : RowIsRecord(rows[j], recs[i])

\* What a step wrote, given the record list it was handed.
WrittenByLabels(recs) ==
    /\ csv' # csv => LabelsThenRecords(csv', recs)
    /\ sheet' # sheet /\ ~append' =>
          LabelsThenRecords(sheet', recs) /\ Len(sheet') = Len(recs) + 1
    /\ sheet' # sheet /\ append' =>
          AddedAreRecords(sheet', Len(sheet), recs)

Cell(row, k) == IF k <= Len(row) THEN row[k] ELSE <<>>

\* (filename, materialNum, serialTrace) of a row of the sheet
RowKey(row) == <<Cell(row, 1), Cell(row, 5), Cell(row, 7)>>

\* No two data rows of the sheet, the rows after its header, share a key.
KeysUnique(rows) ==
    \A i \in 2..Len(rows) : \A j \in 2..Len(rows) :
        i # j => RowKey(rows[i]) # RowKey(rows[j])

\* No row after the first `n` has the key of a data row among the first n.
AddedAreNew(rows, n) ==
    \A j \in (n + 1)..Len(rows) : \A i \in 2..n :
        RowKey(rows[j]) # RowKey(rows[i])

\* C19: an upload in append mode to a sheet whose keys (filename, material
\* number, serial) are unique leaves them unique, and adds no row whose key
\* the sheet already had.
C19_AppendKeepsKeysUnique ==
    [][sheet' # sheet /\ append' /\ KeysUnique(sheet)
          => KeysUnique(sheet') /\ AddedAreNew(sheet', Len(sheet))]_vars

\* The keywords a header cell holds.
HasSerialWord(cell) == HasSub(S_Serial, StrOr(cell)) \/ HasSub(S_Trace, StrOr(cell))

HasMaterialWord(cell) == HasSub(S_Material, StrOr(cell))

HasDescriptionWord(cell) == HasSub(S_Description, StrOr(cell))

HasQtyWord(cell) == HasSub(S_Qty, StrOr(cell))

\* The role of the cell is that of its keyword of highest precedence.
RoleByPrecedence(cell, role) ==
    /\ HasSerialWord(cell) => role = "serial"
    /\ ~HasSerialWord(cell) /\ HasMaterialWord(cell) => role = "material"
    /\ ~HasSerialWord(cell) /\ ~HasMaterialWord(cell)
          /\ HasDescriptionWord(cell) => role = "desc"
    /\ ~HasSerialWord(cell) /\ ~HasMaterialWord(cell)
          /\ ~HasDescriptionWord(cell) /\ HasQtyWord(cell) => role = "qty"
    /\ Cardinality({r \in {"serial", "material", "desc", "qty"} :
                       ColOf(<<cell>>, r) = 1}) <= 1

\* The page has one table, and in its header every cell with the keyword
\* of material also has one of serial.
MaterialOnlyWithSerial ==
    /\ Len(page.tables) = 1
    /\ page.tables[1] # <<>>
    /\ \A i \in 1..Len(page.tables[1][1]) :
          HasMaterialWord(page.tables[1][1][i])
              => HasSerialWord(page.tables[1][1][i])

\* C20: a header cell gets the role of its keyword of highest precedence
\* (serial or trace, then material, then description, then quantity) and
\* no other role: a cell that names both serial and material is the serial
\* column and gives no material number.
C20_HeaderRolePrecedence ==
    TableReturned =>
        /\ \A t \in 1..Len(page.tables) :
              page.tables[t] # <<>> =>
                 \A i \in 1..Len(page.tables[t][1]) :
                    RoleByPrecedence(page.tables[t][1][i],
                                     HeaderRole(page.tables[t][1][i]))
        /\ MaterialOnlyWithSerial =>
              \A k \in 1..Len(table_out.results) :
                  table_out.results[k].material_num = <<>>

\* The header cells "Serial Material" and "Description Qty": two items with
\* a description and neither material number nor quantity.
C20_Witness ==
    /\ TableReturned
    /\ Len(page.tables) = 1
    /\ page.tables[1] # <<>>
    /\ page.tables[1][1] = <<H_SerialMaterial, H_DescriptionQty, None>>
    /\ Len(table_out.results) = 2
    /\ \A k \in 1..2 :
          /\ table_out.results[k].material_num = <<>>
          /\ table_out.results[k].description = <<"D", "1">>
          /\ table_out.results[k].qty = <<>>

\* The lines of the trimmed text of a cell; none for a column not found.
CellLines(row, col) ==
    IF col = NoCol THEN <<>> ELSE SplitLines(Strip(StrOr(row[col])))

\* Some item has the serial, and the sub-value at line position i of the
\* other cell when that cell has a non-blank line i.
PairedAt(serial, material_lines, desc_lines, i) ==
    \E k \in 1..Len(table_out.results) :
        /\ table_out.results[k].serial = serial
        /\ i <= Len(material_lines) /\ Strip(material_lines[i]) # <<>>
              => table_out.results[k].material_num = Strip(material_lines[i])
        /\ i <= Len(desc_lines) /\ Strip(desc_lines[i]) # <<>>
              => table_out.results[k].description = Strip(desc_lines[i])

PairedByLine(serial_lines, material_lines, desc_lines) ==
    \A i \in 1..Len(serial_lines) :
        RealSerial(Strip(serial_lines[i]))
            => PairedAt(Strip(serial_lines[i]), material_lines, desc_lines, i)

RowPairedByLine(row, cols) ==
    PairedByLine(CellLines(row, cols.serial_col),
                 CellLines(row, cols.material_col),
                 CellLines(row, cols.desc_col))

\* C21: a serial is paired with the material and the description at its
\* own line position in the cell; a blank line or a skipped serial in a
\* cell does not shift the pairing of the sub-values after it.
C21_PairedByLinePosition ==
    TableReturned =>
        \A t \in 1..Len(page.tables) : \A r \in 2..Len(page.tables[t]) :
            IsDataRow(t, r) =>
                RowPairedByLine(page.tables[t][r], FindColumns(page.tables[t][1]))

\* A line the loop of line 41 tries: not empty, without "Shipping".
IsCandidate(line) == Strip(line) # <<>> /\ ~HasSub(S_Shipping, line)

MatchesCustomer(line) == ReSearch(CustomerRe, Strip(line)).ok

\* The header phrase is followed by a candidate line that does not match
\* the customer pattern and then by one that does.
SecondCandidateMatches(lines) ==
    \E i \in 1..(Len(lines) - 2) :
        /\ HasSub(S_SalesOrder, lines[i])
        /\ IsCandidate(lines[i + 1]) /\ ~MatchesCustomer(lines[i + 1])
        /\ IsCandidate(lines[i + 2]) /\ MatchesCustomer(lines[i + 2])

\* C22: after the line with "Sales Order/Planning Order Number" the customer
\* pattern is tried on the next candidate lines until one matches: a first
\* candidate that does not match leaves the second to be tried, so the
\* customer is found.
C22_SecondCandidateTried ==
    pc = "table" /\ SecondCandidateMatches(SplitLines(TextOr(page.layout)))
        => info.customer # <<>>

\* The serial token the pattern of line 223 finds first in a line.
FirstToken(line) == Group1(Strip(line), ReSearch(SerialRe, Strip(line)))

HasToken(line) == ReSearch(SerialRe, Strip(line)).ok

\* A line the loop of line 225 skips: blank, or with a column header.
IsSkipped(line) ==
    Strip(line) = <<>> \/ HasSub(S_MaterialHash, line)
        \/ HasSub(S_Description, line)

HasItemWithSerial(serial) ==
    \E k \in 1..Len(text_out.results) : text_out.results[k].serial = serial

\* The token of line i is that of no line that is not skipped.
OnlyInSkipped(section, i) ==
    \A j \in 1..Len(section) :
        HasToken(section[j]) /\ FirstToken(section[j]) = FirstToken(section[i])
            => IsSkipped(section[j])

\* A skipped line gives no item, any other line with a token gives one.
SkippedGiveNothing(section) ==
    \A i \in 1..Len(section) :
        HasToken(section[i]) =>
            IF IsSkipped(section[i])
            THEN OnlyInSkipped(section, i)
                    => ~HasItemWithSerial(FirstToken(section[i]))
            ELSE HasItemWithSerial(FirstToken(section[i]))

\* C23: a section line that is blank or has "Material #" or "Description"
\* gives no item, with or without a serial token; every other section line
\* with a serial token gives an item.
C23_HeaderLinesGiveNoItem ==
    text_out.called => SkippedGiveNothing(SectionOf(page_text))

\* A section of a line with "Description" and a token, and a line with a
\* token: one item, that of the second line.
C23_Witness ==
    /\ text_out.called
    /\ SectionOf(page_text) = <<L_Desc, L_Bare>>
    /\ Len(text_out.results) = 1
    /\ text_out.results[1].serial = FirstToken(L_Bare)

\* The text up to the first white space.
LeadToken(text) ==
    IF \A i \in 1..Len(text) : text[i] \notin Space THEN text
    ELSE SubSeq(text, 1, SetMin({i \in 1..Len(text) : text[i] \in Space}) - 1)

\* A 9-digit number, a number of 6 or more digits, or a code of 2 to 5
\* upper-case letters.
IsMaterialToken(tok) ==
    \/ Len(tok) >= 6 /\ \A i \in 1..Len(tok) : tok[i] \in Digit
    \/ Len(tok) \in 2..5 /\ \A i \in 1..Len(tok) : tok[i] \in Upper \ {"Aring"}

HasItem(material_num, description, serial) ==
    \E k \in 1..Len(text_out.results) :
        /\ text_out.results[k].material_num = material_num
        /\ text_out.results[k].description = description
        /\ text_out.results[k].serial = serial

\* The line is "<material> <description> <serial> ..." with `rest` the text
\* after the material token and `m` the serial found in it: the item has
\* the three parts.
FormGivesParts(material, rest, m) ==
    m.ok /\ Strip(Slice(rest, 0, m.start)) # <<>>
        => HasItem(material, Strip(Slice(rest, 0, m.start)), Group1(rest, m))

MaterialLineGivesParts(line) ==
    IsMaterialToken(LeadToken(line))
        => FormGivesParts(LeadToken(line),
                          Slice(line, Len(LeadToken(line)), Len(line)),
                          ReSearch(SerialRe,
                                   Slice(line, Len(LeadToken(line)), Len(line))))

\* The text before the serial does not start with a material token followed
\* by white space and more text: no material number, the whole text as the
\* description.
OtherLineGivesDescription(before, serial) ==
    ~(IsMaterialToken(LeadToken(before)) /\ LeadToken(before) # before)
        => HasItem(<<>>, before, serial)

LineParts(line, m) ==
    /\ MaterialLineGivesParts(line)
    /\ OtherLineGivesDescription(Strip(Slice(line, 0, m.start)), Group1(line, m))

\* C24: a section line "<material> <description> <serial> [qty]" whose first
\* token is a number of 6 or more digits or a code of 2 to 5 upper-case
\* letters gives an item with that token as material number and the text up
\* to the serial as description; a line whose text before the serial does
\* not start so gives no material number and that text as description.
C24_MaterialAndDescription ==
    text_out.called =>
        \A i \in 1..Len(SectionOf(page_text)) :
            HasToken(SectionOf(page_text)[i])
                /\ ~IsSkipped(SectionOf(page_text)[i])
            => LineParts(Strip(SectionOf(page_text)[i]),
                         ReSearch(SerialRe, Strip(SectionOf(page_text)[i])))

\* What the layout pass alone gives for the page.
Laid == LayoutPass(SplitLines(TextOr(page.layout)), 1, EmptyInfo)

\* What extract_general_info gives for the layout text with no raw text.
WithoutRaw == extract_general_info(page.layout, None)

\* C25: the raw text is used only for a field the layout pass left empty:
\* a customer or a well name found in the layout text is returned whatever
\* the raw text holds, and each fallback gives what the raw text holds for
\* its field whether or not the other field was found.
C25_FallbacksOnlyFillEmpty ==
    pc = "table" =>
        /\ Laid.customer # <<>> => info.customer = WithoutRaw.customer
        /\ Laid.well_name # <<>> => info.well_name = WithoutRaw.well_name
        /\ Laid.customer = <<>> =>
              info.customer = NormalizeCustomer(RawCustomer(TextOr(page.raw)))
        /\ Laid.well_name = <<>> =>
              info.well_name = CleanWellName(RawWellName(TextOr(page.raw)))

\* The layout text gives a customer and no well name, the raw text another
\* customer and a well name: the customer of the layout text, the well name
\* of the raw text.
C25_Witness ==
    /\ pc = "table"
    /\ Laid.customer # <<>>
    /\ Laid.well_name = <<>>
    /\ RawCustomer(TextOr(page.raw)) # <<>>
    /\ info.customer # NormalizeCustomer(RawCustomer(TextOr(page.raw)))
    /\ info.well_name # <<>>

\* The text after the last "/" of a path.
AfterLastSlash(path) ==
    IF \A i \in 1..Len(path) : path[i] # "/" THEN path
    ELSE SubSeq(path, SetMax({i \in 1..Len(path) : path[i] = "/"}) + 1,
                Len(path))

\* The record carries the item unchanged, the base name and the metadata.
RecordOfItem(rec, item) ==
    /\ rec.material_num = item.material_num
    /\ rec.description = item.description
    /\ rec.serial_trace = item.serial
    /\ rec.qty = item.qty
    /\ rec.filename = AfterLastSlash(pdf_path)
    /\ rec.customer = info.customer
    /\ rec.well_name = info.well_name
    /\ rec.load_out_date = info.load_out_date

RecordsOfItems(recs, items) ==
    /\ Len(recs) = Len(items)
    /\ \A k \in 1..Len(recs) : RecordOfItem(recs[k], items[k])

\* C26: a document processed without failure returns as many records as
\* items were chosen for it, the k-th record with the k-th item's material
\* number, description, serial and quantity, and every record with the base
\* name of the path and the metadata of page 1.
C26_RecordPerItem ==
    pc = "loop" /\ rets # <<>> /\ rets[Len(rets)].outcome = "ok"
        => RecordsOfItems(rets[Len(rets)].records, loadout_serials)

\* A document of two items returned two records, with a customer and a
\* quantity.
C26_Witness ==
    /\ pc = "loop"
    /\ rets # <<>>
    /\ rets[Len(rets)].outcome = "ok"
    /\ Len(loadout_serials) = 2
    /\ Len(rets[Len(rets)].records) = 2
    /\ rets[Len(rets)].records[1].customer # <<>>
    /\ rets[Len(rets)].records[1].qty # <<>>
    /\ rets[Len(rets)].records[1].serial_trace
          # rets[Len(rets)].records[2].serial_trace

\* The table has two rows or more and its joined header text has "Serial"
\* or "Trace".
PassesHeaderCheck(table) ==
    /\ Len(table) >= 2
    /\ HasSub(S_Serial, HeaderText(table[1]))
          \/ HasSub(S_Trace, HeaderText(table[1]))

\* C27: a table of two rows or more whose joined header text has "Serial"
\* or "Trace" has a serial column by the classification of its cells: the
\* skip for want of a serial column is never taken.
C27_SerialColumnFound ==
    TableReturned =>
        \A t \in 1..Len(page.tables) :
            PassesHeaderCheck(page.tables[t])
                => /\ FindColumns(page.tables[t][1]).serial_col # NoCol
                   /\ ~SkipTable(page.tables[t])

\* A table whose header names "Trace" only, in a cell with a leading space:
\* its first column is the serial column and it gives items.
C27_Witness ==
    /\ TableReturned
    /\ Len(page.tables) = 1
    /\ PassesHeaderCheck(page.tables[1])
    /\ page.tables[1][1] = <<H_TraceNo, S_Qty>>
    /\ FindColumns(page.tables[1][1]).serial_col = 1
    /\ table_out.results # <<>>

RECURSIVE LeadingDigits(_)
\* The digits a text starts with.
LeadingDigits(text) ==
    IF text = <<>> \/ Head(text) \notin Digit THEN <<>>
    ELSE <<Head(text)>> \o LeadingDigits(Tail(text))

\* The item is made of the leftmost token: material number and description
\* are parts of the text before it, the quantity the digits right after it.
MadeOfLeftmost(item, before, serial, after) ==
    /\ item.serial = serial
    /\ item.qty = LeadingDigits(after)
    /\ \/ item.material_num = <<>> /\ item.description = before
       \/ /\ IsMaterialToken(item.material_num)
          /\ item.material_num = LeadToken(before)
          /\ item.description
                = Strip(Slice(before, Len(item.material_num), Len(before)))

\* No line of the section has the token as its leftmost token.
LeftmostNowhere(section, token) ==
    \A j \in 1..Len(section) :
        HasToken(section[j]) => FirstToken(section[j]) # token

\* For a line with a first match m and a second match m2 in the text after:
\* an item of the first, none of the second.
TwoTokens(section, line, m, after, m2) ==
    m2.ok =>
        /\ \E k \in 1..Len(text_out.results) :
              MadeOfLeftmost(text_out.results[k],
                             Strip(Slice(line, 0, m.start)),
                             Group1(line, m), Strip(after))
        /\ LeftmostNowhere(section, Group1(after, m2))
              => ~HasItemWithSerial(Group1(after, m2))

AfterFirst(section, line, m) ==
    TwoTokens(section, line, m, Slice(line, m.pos, Len(line)),
              ReSearch(SerialRe, Slice(line, m.pos, Len(line))))

LeftmostOnly(section) ==
    \A i \in 1..Len(section) :
        HasToken(section[i]) /\ ~IsSkipped(section[i])
            => AfterFirst(section, Strip(section[i]),
                          ReSearch(SerialRe, Strip(section[i])))

\* C28: a section line with more than one serial token gives one item, of
\* its leftmost token: the text before that token is read as material number
\* and description, the text after it for the quantity, and no other token
\* of the line becomes a serial.
C28_LeftmostTokenIsSerial ==
    text_out.called => LeftmostOnly(SectionOf(page_text))

\* The line "12345678 Valve OWS-4 2" alone: the 8-digit number is the
\* serial, OWS-4 is not, and there is no quantity.
C28_Witness ==
    /\ text_out.called
    /\ SectionOf(page_text) = <<L_Eight>>
    /\ Len(text_out.results) = 1
    /\ text_out.results[1].serial = FirstToken(L_Eight)
    /\ text_out.results[1].qty = <<>>

\* Every record of the list has a serial.
AllHaveSerial(recs) ==
    \A i \in 1..Len(recs) : Field(recs[i], "serial_trace") # <<>>

\* The step uploads in append mode the list the upload before it, also in
\* append mode, was given.
SameListAgain ==
    /\ output # <<>>
    /\ append /\ append'
    /\ Len(output') = Len(output) + 1
    /\ output'[Len(output')] = output[Len(output)]

\* C29: uploading in append mode a list of records with serials that was
\* uploaded in append mode just before, with no other write between, adds
\* no row and leaves the sheet as it was.
C29_AppendTwiceIsIdempotent ==
    [][SameListAgain /\ AllHaveSerial(output[Len(output)])
          => sheet' = sheet]_vars

\* Message i has an attachment whose name ends in .pdf, in any case.
HasPdfName(i) ==
    \E k \in 1..Len(mailbox[i].parts) :
       LET name == mailbox[i].parts[k].filename
           n    == Len(name)
       IN  /\ n >= 4
           /\ name[n - 3] = "."
           /\ name[n - 2] \in {"p", "P"}
           /\ name[n - 1] \in {"d", "D"}
           /\ name[n] \in {"f", "F"}

\* The messages the query returned and the loop has still to take are
\* unread; every other message the query would return has been read.
ReadUpToLoop ==
    pc \in {"message", "loop", "open", "info", "table", "text", "stamp",
            "except"} =>
       \A i \in 1..Len(mailbox) :
          HasPdfName(i) =>
             (i \in unread <=> \E k \in 1..Len(messages) : messages[k] = i)

\* The step marks the message at the head of the loop as read, and no other.
MarksHead ==
    /\ messages # <<>>
    /\ unread' = unread \ {Head(messages)}
    /\ messages' = Tail(messages)

\* A message is marked as read by the step that follows the last of its
\* attachments, or by the step that finds it has none to process; the
\* upload comes when no message is left, and ends the poll.
MarkedThenUploaded ==
    /\ pc = "loop" /\ pdf_files = <<>> => MarksHead
    /\ pc = "message" /\ pc' = "message" => MarksHead /\ pdf_files' = <<>>
    /\ unread' # unread =>
          MarksHead /\ pdf_files' = <<>> /\ all_records' = all_records
    /\ output' # output \/ sheet' # sheet =>
          /\ pc = "message" /\ messages = <<>> /\ pc' = "start"
          /\ \A i \in 1..Len(mailbox) : HasPdfName(i) => i \notin unread

\* C30: in a poll that is not a dry run every message the query returned is
\* marked as read right after its attachments are processed, with or without
\* records extracted from them, and before the one upload of the poll.
C30_MarkedReadBeforeUpload ==
    []ReadUpToLoop /\ [][MarkedThenUploaded]_vars

\* Two messages are read and the upload is next: the PDF of the first could
\* not be opened and gave no record, the second gave records.
C30_Witness ==
    /\ pc = "message"
    /\ messages = <<>>
    /\ Len(mailbox) = 2
    /\ unread = {}
    /\ Len(rets) = 2
    /\ rets[1].outcome = "error"
    /\ rets[1].records = <<>>
    /\ rets[2].records # <<>>
    /\ all_records # <<>>

====
